---- MODULE Spec2Model ----
(***************************************************************************)
(* State-machine model of the Polkadex parachain bridge pallets:           *)
(*   - pallets/xcm-helper   (withdrawal queue, relay ("Thea") key, nonce)  *)
(*   - pallets/thea-council (council votes, membership, veto)              *)
(*                                                                         *)
(* Every dispatchable (#[pallet::call]) is one action.  FRAME executes the *)
(* body of a dispatchable inside a storage layer: when the body returns    *)
(* Err, every storage write it made is discarded (StorageLayer below).     *)
(* The block-initialisation hook on_initialize is part of the block        *)
(* advance (NextBlock).                                                    *)
(*                                                                         *)
(* Spec is the withdrawal queue and the relay key with a fixed council;    *)
(* SpecCouncil is the council's voting and membership; SpecCapacity starts *)
(* from full buckets and full member lists; SpecAssets is the asset table  *)
(* and the token whitelist; SpecRetain is the council with the retention   *)
(* of its pending members; SpecCouncilChain is the council with the block  *)
(* advance; SpecVeto is the vetoes on full buckets; SpecLive is the queue  *)
(* under fair block production.                                            *)
(*                                                                         *)
(* keccak_256 and SCALE encoding are modelled as injective: a signature is *)
(* the pair (signing key, signed message) and verifies under a public key  *)
(* exactly when the key and the message are the ones it was made with.     *)
(***************************************************************************)
EXTENDS Integers, Sequences, FiniteSets, TLC

---------------------------------------------------------------------------
(* Bounds of the model *)

\* The block clock runs from 1 to MaxBlock.
MaxBlock == 4
\* Number of extrinsics dispatched in one behaviour of Spec.
MaxCalls == 2
\* Number of extrinsics dispatched in one behaviour of SpecCouncil.
MaxCouncilCalls == 3
\* The number of create_parachain_asset and whitelist_token calls dispatched.
MaxAssetCalls == 3
\* The clock of the council's retention runs from 0 to MaxTime.
MaxTime == 5
\* T::RetainPeriod, the time a pending member has to claim its membership
\* (24h in the mock), scaled down.
RetainPeriod == 2
\* The executor's per-entry outcomes of one drain repeat with this period.
OutcomePeriod == 3
\* T::WithdrawalExecutionBlockDiff, the delay in blocks the runtime configures
\* (7000 in the simulator runtime, 1000 in the mock), scaled down.
WithdrawalExecutionBlockDiff == 2

(* Program constants *)

\* BoundedVec<PendingWithdrawal, ConstU32<100>>
PendingWithdrawalsLimit == 100
\* IngressMessageLimit::get()
IngressMessageLimit == 20
\* ActiveCouncilMembers: BoundedVec<T::AccountId, ConstU32<10>>
ActiveCouncilMembersLimit == 10
\* PendingCouncilMembers: BoundedVec<T::AccountId, ConstU32<10>>
PendingCouncilMembersLimit == 10
\* Proposals: BoundedVec<Voted<T::AccountId>, ConstU32<100>>
ProposalVotesLimit == 100

---------------------------------------------------------------------------
(* Values *)

NoKey == "NoKey"
Keys == {"K1", "K2"}

\* The accounts that call the council's extrinsics and are named in its
\* proposals.
Candidates == 1 .. 4
Root == [kind |-> "Root", who |-> 0]
Signed(a) == [kind |-> "Signed", who |-> a]

\* The (asset, destination) pairs a relayer can put into a payload.  A
\* destination with parents == 0 is this parachain ("Local"), any other is
\* reached over XCM ("Foreign").
P1 == [asset |-> "A1", destination |-> "Local"]
P2 == [asset |-> "A2", destination |-> "Foreign"]
Payloads == {<<P1>>, <<P2, P1>>}

\* Blocks that can hold a bucket.
Blocks == 0 .. (MaxBlock + WithdrawalExecutionBlockDiff)

VARIABLES
    block,                \* frame_system::Pallet::block_number()
    ActiveTheaKey,        \* Option<ecdsa::Public>, NoKey for None
    WithdrawNonce,        \* u32
    PendingWithdrawals,   \* block -> BoundedVec<PendingWithdrawal, 100>
    FailedWithdrawals,    \* block -> BoundedVec<PendingWithdrawal, 100>
    IngressMessages,      \* BoundedVec<TheaMessage, 20>
    ActiveCouncilMembers, \* BoundedVec<AccountId, 10>
    PendingCouncilMembers,\* BoundedVec<AccountId, 10>
    Proposals,            \* Proposal -> BoundedVec<Voted<AccountId>, 100>, <<>> for no entry
    executed,             \* log of the calls made to the transfer/deposit executor
    accepted,             \* log of the withdraw_asset calls that returned Ok
    lastCall,             \* the last extrinsic or hook, its inputs and its result
    calls,                \* number of extrinsics dispatched so far
    TheaAssets,           \* asset id -> (network id, identifier length, identifier)
    WhitelistedTokens,    \* BoundedVec<u128, 50>
    Asset,                \* the asset ids that exist in the AssetManager
    registered,           \* the (asset id, location) pairs create_parachain_asset has stored
    Timestamp,            \* pallet_timestamp: Now
    PendingSince          \* for each entry of PendingCouncilMembers, the time of its admission

vars == <<block, ActiveTheaKey, WithdrawNonce, PendingWithdrawals, FailedWithdrawals,
          IngressMessages, ActiveCouncilMembers, PendingCouncilMembers, Proposals,
          executed, accepted, lastCall, calls,
          TheaAssets, WhitelistedTokens, Asset, registered, Timestamp, PendingSince>>

\* The asset table, the whitelist and the assets of the AssetManager.
assetVars == <<TheaAssets, WhitelistedTokens, Asset, registered>>

\* The clock and the admission times of the pending members.
retainVars == <<Timestamp, PendingSince>>

---------------------------------------------------------------------------
(* Helpers *)

Range(s) == {s[i] : i \in DOMAIN s}

RECURSIVE Repeat(_, _)
Repeat(x, n) == IF n = 0 THEN <<>> ELSE Append(Repeat(x, n - 1), x)

\* A u32 is kept as two 16-bit limbs, value = hi * 2^16 + lo, so that the
\* arithmetic below has the width of the program's u32.
LimbBase == 2 ^ 16
U32(n) == [hi |-> n \div LimbBase, lo |-> n % LimbBase]
FromU32(x) == x.hi * LimbBase + x.lo
\* u32::MAX
U32_MAX == [hi |-> LimbBase - 1, lo |-> LimbBase - 1]
LessU32(a, b) == a.hi < b.hi \/ (a.hi = b.hi /\ a.lo < b.lo)

\* u32::saturating_add
SaturatingAddU32(a, b) ==
    LET lo == a.lo + b.lo
        hi == a.hi + b.hi + (lo \div LimbBase)
    IN  IF hi >= LimbBase THEN U32_MAX ELSE [hi |-> hi, lo |-> lo % LimbBase]

\* PendingWithdrawal { asset, destination, is_blocked }
PendingWithdrawal(asset, destination, is_blocked) ==
    [asset |-> asset, destination |-> destination, is_blocked |-> is_blocked]

\* The messages the relay key signs (keccak_256 of the SCALE encoding).
WithdrawMsg(payload, nonce) == [kind |-> "withdraw", payload |-> payload, nonce |-> nonce]
KeyMsg(key) == [kind |-> "key", key |-> key]
Signature(signer, msg) == [signer |-> signer, msg |-> msg]

\* Mutant: the signing key is not compared with the public key.
ecdsa_verify_any_signer(signature, msg, public_key) == signature.msg = msg

\* sp_io::crypto::ecdsa_verify_prehashed(&signature, &payload_hash, &public_key)
ecdsa_verify_prehashed(signature, msg, public_key) ==
    signature.signer = public_key /\ signature.msg = msg

\* ensure_signed(origin)
ensure_signed(origin) == origin.kind = "Signed"
\* ensure_root(origin)
ensure_root(origin) == origin.kind = "Root"

\* TheaMessage
TheaKeySetBySudo(key) == [kind |-> "TheaKeySetBySudo", key |-> key]
TheaKeyChanged(key) == [kind |-> "TheaKeyChanged", key |-> key]
AssetDeposited == [kind |-> "AssetDeposited", key |-> NoKey]

\* Mutant: the writes of a failed dispatchable are kept.
NoStorageLayer(result, new, old) == new

\* #[pallet::call]: a dispatchable runs in a storage layer; the writes of a
\* body that returns Err are rolled back.
StorageLayer(result, new, old) == IF result = "Ok" THEN new ELSE old

---------------------------------------------------------------------------
(* xcm-helper: withdraw_asset *)

\* Mutant: no execution delay.
ExecutionBlockWithoutDelay(b) == b

\* The block in which a withdrawal accepted in block b is executed.
ExecutionBlock(b) ==
    FromU32(SaturatingAddU32(U32(b), U32(WithdrawalExecutionBlockDiff)))

\* Mutant: the loop stops at a full bucket without reporting it.
PushPayloadTruncating(bucket, payload) ==
    LET room == PendingWithdrawalsLimit - Len(bucket)
        kept == SubSeq(payload, 1, IF room < Len(payload) THEN room ELSE Len(payload))
    IN  [result |-> "Ok",
         bucket |-> bucket \o [k \in 1 .. Len(kept) |->
                                  PendingWithdrawal(kept[k].asset, kept[k].destination, FALSE)]]

\* The loop over the payload: each entry is pushed with is_blocked = false; the
\* first try_push on a full bucket ends the call with
\* PendingWithdrawalsLimitReached (the entries pushed before it are in `bucket`).
RECURSIVE PushPayload(_, _)
PushPayload(bucket, payload) ==
    IF payload = <<>>
    THEN [result |-> "Ok", bucket |-> bucket]
    ELSE IF Len(bucket) >= PendingWithdrawalsLimit
         THEN [result |-> "PendingWithdrawalsLimitReached", bucket |-> bucket]
         ELSE PushPayload(
                  Append(bucket,
                         PendingWithdrawal(Head(payload).asset, Head(payload).destination, FALSE)),
                  Tail(payload))

\* Mutant: the key is looked up before the nonce is compared.
withdraw_asset_key_first(origin, payload, withdraw_nonce, signature) ==
    LET current_withdraw_nonce == WithdrawNonce
        withdrawal_execution_block == ExecutionBlock(block)
        pushed == PushPayload(PendingWithdrawals[withdrawal_execution_block], payload)
        Untouched(result) ==
            [result |-> result, pending |-> PendingWithdrawals, nonce |-> WithdrawNonce]
    IN  IF ~ensure_signed(origin) THEN Untouched("BadOrigin")
        ELSE IF ActiveTheaKey = NoKey THEN Untouched("PublicKeyNotSet")
        ELSE IF withdraw_nonce # current_withdraw_nonce THEN Untouched("NonceIsNotValid")
        ELSE IF ~ecdsa_verify_prehashed(signature,
                                        WithdrawMsg(payload, current_withdraw_nonce),
                                        ActiveTheaKey)
             THEN Untouched("SignatureVerificationFailed")
        ELSE [result |-> pushed.result,
              pending |-> [PendingWithdrawals EXCEPT
                               ![withdrawal_execution_block] = pushed.bucket],
              nonce |-> IF pushed.result = "Ok"
                        THEN SaturatingAddU32(current_withdraw_nonce, U32(1))
                        ELSE WithdrawNonce]

\* The body of withdraw_asset: its result and the storage it leaves behind.
withdraw_asset_body(origin, payload, withdraw_nonce, signature) ==
    LET current_withdraw_nonce == WithdrawNonce
        withdrawal_execution_block == ExecutionBlock(block)
        pushed == PushPayload(PendingWithdrawals[withdrawal_execution_block], payload)
        Untouched(result) ==
            [result |-> result, pending |-> PendingWithdrawals, nonce |-> WithdrawNonce]
    IN  IF ~ensure_signed(origin) THEN Untouched("BadOrigin")
        ELSE IF withdraw_nonce # current_withdraw_nonce THEN Untouched("NonceIsNotValid")
        ELSE IF ActiveTheaKey = NoKey THEN Untouched("PublicKeyNotSet")
        ELSE IF ~ecdsa_verify_prehashed(signature,
                                        WithdrawMsg(payload, current_withdraw_nonce),
                                        ActiveTheaKey)
             THEN Untouched("SignatureVerificationFailed")
        ELSE [result |-> pushed.result,
              pending |-> [PendingWithdrawals EXCEPT
                               ![withdrawal_execution_block] = pushed.bucket],
              nonce |-> IF pushed.result = "Ok"
                        THEN SaturatingAddU32(current_withdraw_nonce, U32(1))
                        ELSE WithdrawNonce]

withdraw_asset(origin, payload, withdraw_nonce, signature) ==
    /\ calls < MaxCalls
    /\ LET r == withdraw_asset_body(origin, payload, withdraw_nonce, signature)
       IN  /\ PendingWithdrawals' = StorageLayer(r.result, r.pending, PendingWithdrawals)
           /\ WithdrawNonce' = StorageLayer(r.result, r.nonce, WithdrawNonce)
           /\ accepted' = IF r.result = "Ok"
                          THEN Append(accepted,
                                      [block |-> block,
                                       pos |-> Len(PendingWithdrawals[ExecutionBlock(block)]),
                                       payload |-> payload,
                                       nonce |-> withdraw_nonce,
                                       signature |-> signature])
                          ELSE accepted
           /\ lastCall' = [op |-> "withdraw_asset", origin |-> origin,
                           args |-> [payload |-> payload, withdraw_nonce |-> withdraw_nonce,
                                     signature |-> signature],
                           result |-> r.result]
    /\ calls' = calls + 1
    /\ UNCHANGED <<block, ActiveTheaKey, FailedWithdrawals, IngressMessages,
                   ActiveCouncilMembers, PendingCouncilMembers, Proposals, executed>>
    /\ UNCHANGED assetVars
    /\ UNCHANGED retainVars

---------------------------------------------------------------------------
(* xcm-helper: the relay key *)

\* <IngressMessages<T>>::try_mutate(|m| m.try_push(message))
try_push_ingress(messages, message) ==
    IF Len(messages) >= IngressMessageLimit
    THEN [result |-> "IngressMessagesFull", messages |-> messages]
    ELSE [result |-> "Ok", messages |-> Append(messages, message)]

\* Mutant: the signature is verified under the new key, not the active one.
change_thea_key_self_signed(origin, new_thea_key, signature) ==
    LET Untouched(result) ==
            [result |-> result, key |-> ActiveTheaKey, messages |-> IngressMessages]
        pushed == try_push_ingress(IngressMessages, TheaKeyChanged(new_thea_key))
    IN  IF ~ensure_signed(origin) THEN Untouched("BadOrigin")
        ELSE IF ActiveTheaKey = NoKey THEN Untouched("PublicKeyNotSet")
        ELSE IF ~ecdsa_verify_prehashed(signature, KeyMsg(new_thea_key), new_thea_key)
             THEN Untouched("SignatureVerificationFailed")
        ELSE [result |-> pushed.result, key |-> new_thea_key, messages |-> pushed.messages]

change_thea_key_body(origin, new_thea_key, signature) ==
    LET Untouched(result) ==
            [result |-> result, key |-> ActiveTheaKey, messages |-> IngressMessages]
        pushed == try_push_ingress(IngressMessages, TheaKeyChanged(new_thea_key))
    IN  IF ~ensure_signed(origin) THEN Untouched("BadOrigin")
        ELSE IF ActiveTheaKey = NoKey THEN Untouched("PublicKeyNotSet")
        ELSE IF ~ecdsa_verify_prehashed(signature, KeyMsg(new_thea_key), ActiveTheaKey)
             THEN Untouched("SignatureVerificationFailed")
        ELSE [result |-> pushed.result, key |-> new_thea_key, messages |-> pushed.messages]

change_thea_key(origin, new_thea_key, signature) ==
    /\ calls < MaxCalls
    /\ LET r == change_thea_key_body(origin, new_thea_key, signature)
       IN  /\ ActiveTheaKey' = StorageLayer(r.result, r.key, ActiveTheaKey)
           /\ IngressMessages' = StorageLayer(r.result, r.messages, IngressMessages)
           /\ lastCall' = [op |-> "change_thea_key", origin |-> origin,
                           args |-> [new_thea_key |-> new_thea_key, signature |-> signature],
                           result |-> r.result]
    /\ calls' = calls + 1
    /\ UNCHANGED <<block, WithdrawNonce, PendingWithdrawals, FailedWithdrawals,
                   ActiveCouncilMembers, PendingCouncilMembers, Proposals,
                   executed, accepted>>
    /\ UNCHANGED assetVars
    /\ UNCHANGED retainVars

set_thea_key_body(origin, thea_key) ==
    LET pushed == try_push_ingress(IngressMessages, TheaKeySetBySudo(thea_key))
    IN  IF ~ensure_root(origin)
        THEN [result |-> "BadOrigin", key |-> ActiveTheaKey, messages |-> IngressMessages]
        ELSE [result |-> pushed.result, key |-> thea_key, messages |-> pushed.messages]

set_thea_key(origin, thea_key) ==
    /\ calls < MaxCalls
    /\ LET r == set_thea_key_body(origin, thea_key)
       IN  /\ ActiveTheaKey' = StorageLayer(r.result, r.key, ActiveTheaKey)
           /\ IngressMessages' = StorageLayer(r.result, r.messages, IngressMessages)
           /\ lastCall' = [op |-> "set_thea_key", origin |-> origin,
                           args |-> [thea_key |-> thea_key],
                           result |-> r.result]
    /\ calls' = calls + 1
    /\ UNCHANGED <<block, WithdrawNonce, PendingWithdrawals, FailedWithdrawals,
                   ActiveCouncilMembers, PendingCouncilMembers, Proposals,
                   executed, accepted>>
    /\ UNCHANGED assetVars
    /\ UNCHANGED retainVars

---------------------------------------------------------------------------
(* xcm-helper: block_by_ele, thea-council: delete_transaction *)

\* Mutant: the modified bucket is not written back.
block_by_ele_not_stored(block_no, index) ==
    IF index >= Len(PendingWithdrawals[block_no])
    THEN [result |-> "IndexNotFound", pending |-> PendingWithdrawals]
    ELSE [result |-> "Ok", pending |-> PendingWithdrawals]

\* Mutant: an index past the end of the bucket is taken for its last entry.
block_by_ele_clamped(block_no, index) ==
    LET pending_withdrawals == PendingWithdrawals[block_no]
        last == Len(pending_withdrawals)
    IN  IF last = 0
        THEN [result |-> "IndexNotFound", pending |-> PendingWithdrawals]
        ELSE [result |-> "Ok",
              pending |-> [PendingWithdrawals EXCEPT
                               ![block_no] =
                                   [pending_withdrawals EXCEPT
                                        ![IF index + 1 > last THEN last ELSE index + 1]
                                            .is_blocked = TRUE]]]

\* Mutant: the flag of the entry is inverted.
block_by_ele_toggling(block_no, index) ==
    LET pending_withdrawals == PendingWithdrawals[block_no]
    IN  IF index >= Len(pending_withdrawals)
        THEN [result |-> "IndexNotFound", pending |-> PendingWithdrawals]
        ELSE [result |-> "Ok",
              pending |-> [PendingWithdrawals EXCEPT
                               ![block_no] =
                                   [pending_withdrawals EXCEPT
                                        ![index + 1].is_blocked =
                                            ~pending_withdrawals[index + 1].is_blocked]]]

\* Mutant: the entry is removed from the bucket.
block_by_ele_removing(block_no, index) ==
    LET pending_withdrawals == PendingWithdrawals[block_no]
    IN  IF index >= Len(pending_withdrawals)
        THEN [result |-> "IndexNotFound", pending |-> PendingWithdrawals]
        ELSE [result |-> "Ok",
              pending |-> [PendingWithdrawals EXCEPT
                               ![block_no] =
                                   SubSeq(pending_withdrawals, 1, index) \o
                                       SubSeq(pending_withdrawals, index + 2,
                                              Len(pending_withdrawals))]]

\* pending_withdrawals.get_mut(index).ok_or(IndexNotFound)?.is_blocked = true,
\* then the bucket is written back.
block_by_ele(block_no, index) ==
    LET pending_withdrawals == PendingWithdrawals[block_no]
    IN  IF index >= Len(pending_withdrawals)
        THEN [result |-> "IndexNotFound", pending |-> PendingWithdrawals]
        ELSE [result |-> "Ok",
              pending |-> [PendingWithdrawals EXCEPT
                               ![block_no] = [pending_withdrawals EXCEPT
                                                  ![index + 1].is_blocked = TRUE]]]

\* Mutant: a pending member passes for a council member.
is_council_or_pending_member(sender) ==
    sender \in Range(ActiveCouncilMembers) \cup Range(PendingCouncilMembers)

is_council_member(sender) == sender \in Range(ActiveCouncilMembers)

\* Mutant: the sender's membership is not checked.
delete_transaction_unchecked(origin, block_no, index) ==
    IF ~ensure_signed(origin)
    THEN [result |-> "BadOrigin", pending |-> PendingWithdrawals]
    ELSE block_by_ele(block_no, index)

delete_transaction_body(origin, block_no, index) ==
    IF ~ensure_signed(origin)
    THEN [result |-> "BadOrigin", pending |-> PendingWithdrawals]
    ELSE IF ~is_council_member(origin.who)
         THEN [result |-> "SenderNotCouncilMember", pending |-> PendingWithdrawals]
         ELSE block_by_ele(block_no, index)

delete_transaction(origin, block_no, index) ==
    /\ calls < MaxCalls
    /\ LET r == delete_transaction_body(origin, block_no, index)
       IN  /\ PendingWithdrawals' = StorageLayer(r.result, r.pending, PendingWithdrawals)
           /\ lastCall' = [op |-> "delete_transaction", origin |-> origin,
                           args |-> [block_no |-> block_no, index |-> index],
                           result |-> r.result]
    /\ calls' = calls + 1
    /\ UNCHANGED <<block, ActiveTheaKey, WithdrawNonce, FailedWithdrawals, IngressMessages,
                   ActiveCouncilMembers, PendingCouncilMembers, Proposals,
                   executed, accepted>>
    /\ UNCHANGED assetVars
    /\ UNCHANGED retainVars

---------------------------------------------------------------------------
(* thea-council: proposals, votes and membership *)

\* Proposal<AccountId>
AddNewMember(new_member) == [kind |-> "AddNewMember", who |-> new_member]
RemoveExistingMember(member_to_be_removed) ==
    [kind |-> "RemoveExistingMember", who |-> member_to_be_removed]
ProposalKeys ==
    {AddNewMember(a) : a \in Candidates} \cup {RemoveExistingMember(a) : a \in Candidates}

\* iter().position(|member| *member == x): the index of the first x (from 1).
Position(s, x) == CHOOSE i \in DOMAIN s : s[i] = x /\ \A j \in 1 .. (i - 1) : s[j] # x
\* Vec::remove(index)
RemoveAt(s, i) == SubSeq(s, 1, i - 1) \o SubSeq(s, i + 1, Len(s))

\* The admission times after a vote: a member pushed to the pending list is
\* admitted at the current time.
AdmissionTimes(result, pending) ==
    IF result = "Ok" /\ Len(pending) > Len(PendingCouncilMembers)
    THEN Append(PendingSince, Timestamp)
    ELSE PendingSince

\* The admission times after a claim: the time of the entry removed from the
\* pending list goes with it.
ClaimedTimes(result, pending, sender) ==
    IF result = "Ok" /\ Len(pending) < Len(PendingCouncilMembers)
    THEN RemoveAt(PendingSince, Position(PendingCouncilMembers, sender))
    ELSE PendingSince

\* Mutant: the quorum is rounded up.
expected_votes_rounded_up == (Len(ActiveCouncilMembers) * 2 + 2) \div 3

\* total_active_council_size.saturating_mul(2).saturating_div(3)
expected_votes == (Len(ActiveCouncilMembers) * 2) \div 3

\* Mutant: the pending list is not bounded.
execute_add_member_unbounded(new_member) ==
    [result |-> "Ok", active |-> ActiveCouncilMembers,
     pending |-> Append(PendingCouncilMembers, new_member)]

execute_add_member(new_member) ==
    IF Len(PendingCouncilMembers) >= PendingCouncilMembersLimit
    THEN [result |-> "StorageOverflow", active |-> ActiveCouncilMembers,
          pending |-> PendingCouncilMembers]
    ELSE [result |-> "Ok", active |-> ActiveCouncilMembers,
          pending |-> Append(PendingCouncilMembers, new_member)]

\* Mutant: every occurrence of the member is removed.
execute_remove_member_all(member_to_be_removed) ==
    IF member_to_be_removed \notin Range(ActiveCouncilMembers)
    THEN [result |-> "NotActiveMember", active |-> ActiveCouncilMembers,
          pending |-> PendingCouncilMembers]
    ELSE [result |-> "Ok",
          active |-> SelectSeq(ActiveCouncilMembers, LAMBDA m : m # member_to_be_removed),
          pending |-> PendingCouncilMembers]

\* Mutant: the removal of an account that is not a member succeeds.
execute_remove_member_ignoring_absent(member_to_be_removed) ==
    IF member_to_be_removed \notin Range(ActiveCouncilMembers)
    THEN [result |-> "Ok", active |-> ActiveCouncilMembers,
          pending |-> PendingCouncilMembers]
    ELSE [result |-> "Ok",
          active |-> RemoveAt(ActiveCouncilMembers,
                              Position(ActiveCouncilMembers, member_to_be_removed)),
          pending |-> PendingCouncilMembers]

execute_remove_member(member_to_be_removed) ==
    IF member_to_be_removed \notin Range(ActiveCouncilMembers)
    THEN [result |-> "NotActiveMember", active |-> ActiveCouncilMembers,
          pending |-> PendingCouncilMembers]
    ELSE [result |-> "Ok",
          active |-> RemoveAt(ActiveCouncilMembers,
                              Position(ActiveCouncilMembers, member_to_be_removed)),
          pending |-> PendingCouncilMembers]

execute_proposal(proposal) ==
    IF proposal.kind = "AddNewMember"
    THEN execute_add_member(proposal.who)
    ELSE execute_remove_member(proposal.who)

\* Mutant: a sender already recorded on the proposal may vote again.
evaluate_proposal_revote(proposal, sender) ==
    LET votes == Proposals[proposal]
        pushed == Append(votes, sender)
        executed_proposal == execute_proposal(proposal)
        Untouched(result) ==
            [result |-> result, proposals |-> Proposals,
             active |-> ActiveCouncilMembers, pending |-> PendingCouncilMembers]
    IN  IF Len(votes) >= ProposalVotesLimit THEN Untouched("StorageOverflow")
        ELSE IF Len(pushed) >= expected_votes
             THEN IF executed_proposal.result # "Ok"
                  THEN Untouched(executed_proposal.result)
                  ELSE [result |-> "Ok",
                        proposals |-> [Proposals EXCEPT ![proposal] = <<>>],
                        active |-> executed_proposal.active,
                        pending |-> executed_proposal.pending]
             ELSE [result |-> "Ok",
                   proposals |-> [Proposals EXCEPT ![proposal] = pushed],
                   active |-> ActiveCouncilMembers,
                   pending |-> PendingCouncilMembers]

\* Mutant: remove_proposal removes every stored proposal.
evaluate_proposal_clearing_all(proposal, sender) ==
    LET votes == Proposals[proposal]
        pushed == Append(votes, sender)
        executed_proposal == execute_proposal(proposal)
        Untouched(result) ==
            [result |-> result, proposals |-> Proposals,
             active |-> ActiveCouncilMembers, pending |-> PendingCouncilMembers]
    IN  IF sender \in Range(votes) THEN Untouched("SenderAlreadyVoted")
        ELSE IF Len(votes) >= ProposalVotesLimit THEN Untouched("StorageOverflow")
        ELSE IF Len(pushed) >= expected_votes
             THEN IF executed_proposal.result # "Ok"
                  THEN Untouched(executed_proposal.result)
                  ELSE [result |-> "Ok",
                        proposals |-> [p \in ProposalKeys |-> <<>>],
                        active |-> executed_proposal.active,
                        pending |-> executed_proposal.pending]
             ELSE [result |-> "Ok",
                   proposals |-> [Proposals EXCEPT ![proposal] = pushed],
                   active |-> ActiveCouncilMembers,
                   pending |-> PendingCouncilMembers]

\* Proposals::try_mutate(proposal, ..): the closure's writes to `votes` are
\* stored only when it returns Ok; remove_proposal follows when the proposal
\* was executed.
evaluate_proposal(proposal, sender) ==
    LET votes == Proposals[proposal]
        pushed == Append(votes, sender)
        executed_proposal == execute_proposal(proposal)
        Untouched(result) ==
            [result |-> result, proposals |-> Proposals,
             active |-> ActiveCouncilMembers, pending |-> PendingCouncilMembers]
    IN  IF sender \in Range(votes) THEN Untouched("SenderAlreadyVoted")
        ELSE IF Len(votes) >= ProposalVotesLimit THEN Untouched("StorageOverflow")
        ELSE IF Len(pushed) >= expected_votes
             THEN IF executed_proposal.result # "Ok"
                  THEN Untouched(executed_proposal.result)
                  ELSE [result |-> "Ok",
                        proposals |-> [Proposals EXCEPT ![proposal] = <<>>],
                        active |-> executed_proposal.active,
                        pending |-> executed_proposal.pending]
             ELSE [result |-> "Ok",
                   proposals |-> [Proposals EXCEPT ![proposal] = pushed],
                   active |-> ActiveCouncilMembers,
                   pending |-> PendingCouncilMembers]

\* Mutant: the sender's membership is not checked before the vote.
cast_vote_body_unchecked(origin, proposal) ==
    IF ~ensure_signed(origin)
    THEN [result |-> "BadOrigin", proposals |-> Proposals,
          active |-> ActiveCouncilMembers, pending |-> PendingCouncilMembers]
    ELSE evaluate_proposal(proposal, origin.who)

\* The body shared by add_member and remove_member.
cast_vote_body(origin, proposal) ==
    IF ~ensure_signed(origin)
    THEN [result |-> "BadOrigin", proposals |-> Proposals,
          active |-> ActiveCouncilMembers, pending |-> PendingCouncilMembers]
    ELSE IF ~is_council_member(origin.who)
         THEN [result |-> "SenderNotCouncilMember", proposals |-> Proposals,
               active |-> ActiveCouncilMembers, pending |-> PendingCouncilMembers]
         ELSE evaluate_proposal(proposal, origin.who)

\* The step of add_member and remove_member.
cast_vote(op, origin, proposal) ==
    /\ calls < MaxCouncilCalls
    /\ LET r == cast_vote_body(origin, proposal)
       IN  /\ Proposals' = StorageLayer(r.result, r.proposals, Proposals)
           /\ ActiveCouncilMembers' = StorageLayer(r.result, r.active, ActiveCouncilMembers)
           /\ PendingCouncilMembers' =
                  StorageLayer(r.result, r.pending, PendingCouncilMembers)
           /\ lastCall' = [op |-> op, origin |-> origin,
                           args |-> [who |-> proposal.who],
                           result |-> r.result]
           /\ PendingSince' = AdmissionTimes(r.result, r.pending)
    /\ calls' = calls + 1
    /\ UNCHANGED <<block, ActiveTheaKey, WithdrawNonce, PendingWithdrawals,
                   FailedWithdrawals, IngressMessages, executed, accepted>>
    /\ UNCHANGED assetVars
    /\ UNCHANGED Timestamp

add_member(origin, new_member) ==
    cast_vote("add_member", origin, AddNewMember(new_member))

remove_member(origin, member_to_be_removed) ==
    cast_vote("remove_member", origin, RemoveExistingMember(member_to_be_removed))

\* Mutant: the sender stays in the pending list.
do_claim_membership_keeps_pending(sender) ==
    IF sender \notin Range(PendingCouncilMembers)
    THEN [result |-> "NotPendingMember", active |-> ActiveCouncilMembers,
          pending |-> PendingCouncilMembers]
    ELSE IF Len(ActiveCouncilMembers) >= ActiveCouncilMembersLimit
         THEN [result |-> "StorageOverflow", active |-> ActiveCouncilMembers,
               pending |-> PendingCouncilMembers]
         ELSE [result |-> "Ok", active |-> Append(ActiveCouncilMembers, sender),
               pending |-> PendingCouncilMembers]

\* The sender is removed from the pending list and the list is put back
\* before the push to the active list is tried.
do_claim_membership(sender) ==
    IF sender \notin Range(PendingCouncilMembers)
    THEN [result |-> "NotPendingMember", active |-> ActiveCouncilMembers,
          pending |-> PendingCouncilMembers]
    ELSE LET pending_members ==
                 RemoveAt(PendingCouncilMembers, Position(PendingCouncilMembers, sender))
         IN  IF Len(ActiveCouncilMembers) >= ActiveCouncilMembersLimit
             THEN [result |-> "StorageOverflow", active |-> ActiveCouncilMembers,
                   pending |-> pending_members]
             ELSE [result |-> "Ok", active |-> Append(ActiveCouncilMembers, sender),
                   pending |-> pending_members]

claim_membership_body(origin) ==
    IF ~ensure_signed(origin)
    THEN [result |-> "BadOrigin", active |-> ActiveCouncilMembers,
          pending |-> PendingCouncilMembers]
    ELSE do_claim_membership(origin.who)

claim_membership(origin) ==
    /\ calls < MaxCouncilCalls
    /\ LET r == claim_membership_body(origin)
       IN  /\ ActiveCouncilMembers' = StorageLayer(r.result, r.active, ActiveCouncilMembers)
           /\ PendingCouncilMembers' =
                  StorageLayer(r.result, r.pending, PendingCouncilMembers)
           /\ lastCall' = [op |-> "claim_membership", origin |-> origin,
                           args |-> [who |-> origin.who],
                           result |-> r.result]
           /\ PendingSince' = ClaimedTimes(r.result, r.pending, origin.who)
    /\ calls' = calls + 1
    /\ UNCHANGED <<block, ActiveTheaKey, WithdrawNonce, PendingWithdrawals,
                   FailedWithdrawals, IngressMessages, Proposals, executed, accepted>>
    /\ UNCHANGED assetVars
    /\ UNCHANGED Timestamp

---------------------------------------------------------------------------
(* thea-council: the retention of pending members *)

\* Mutant: an admission is taken to have expired one unit of time early.
ExpiredOneEarly(since, time) == time - since >= RetainPeriod - 1

\* The retention period of an admission made at `since` has elapsed at `time`.
Expired(since, time) == time - since >= RetainPeriod

\* The council's hook, run when the clock has moved to `time`: the pending
\* members whose retention period has elapsed are removed.
council_on_initialize(time) ==
    /\ time <= MaxTime
    /\ Timestamp' = time
    /\ LET kept == SelectSeq([k \in DOMAIN PendingCouncilMembers |-> k],
                             LAMBDA k : ~Expired(PendingSince[k], time))
           removed == SelectSeq([k \in DOMAIN PendingCouncilMembers |-> k],
                                LAMBDA k : Expired(PendingSince[k], time))
       IN  /\ PendingCouncilMembers' =
                  [j \in 1 .. Len(kept) |-> PendingCouncilMembers[kept[j]]]
           /\ PendingSince' = [j \in 1 .. Len(kept) |-> PendingSince[kept[j]]]
           /\ lastCall' = [op |-> "council_on_initialize", origin |-> Root,
                           args |-> [removed |->
                                        [j \in 1 .. Len(removed) |->
                                            PendingCouncilMembers[removed[j]]]],
                           result |-> "Ok"]
    /\ UNCHANGED <<block, ActiveTheaKey, WithdrawNonce, PendingWithdrawals,
                   FailedWithdrawals, IngressMessages, ActiveCouncilMembers,
                   Proposals, executed, accepted, calls>>
    /\ UNCHANGED assetVars

---------------------------------------------------------------------------
(* xcm-helper: Hooks::on_initialize *)

\* The executor's answer (Ok = TRUE) for the entry at bucket position i.
OutcomeAt(oc, i) == oc[((i - 1) % OutcomePeriod) + 1]

is_polkadex_parachain_destination(destination) == destination = "Local"

\* Mutant: the is_blocked flag is not looked at.
ProcessWithdrawalIgnoringBlock(withdrawal, ok) ==
    [called |-> TRUE,
     via |-> IF ~is_polkadex_parachain_destination(withdrawal.destination)
             THEN "transfer_multiassets"
             ELSE "handle_deposit",
     ok |-> ok,
     failed |-> ~ok]

\* Mutant: a withdrawal whose transfer failed is dropped instead of kept.
ProcessWithdrawalDroppingFailed(withdrawal, ok) ==
    IF ~withdrawal.is_blocked
    THEN [called |-> TRUE,
          via |-> IF ~is_polkadex_parachain_destination(withdrawal.destination)
                  THEN "transfer_multiassets"
                  ELSE "handle_deposit",
          ok |-> ok,
          failed |-> FALSE]
    ELSE [called |-> FALSE, via |-> "none", ok |-> FALSE, failed |-> TRUE]

\* The loop body for one popped withdrawal: whether the executor is called,
\* which one, what it answers, and whether the withdrawal is pushed to
\* failed_withdrawal.
ProcessWithdrawal(withdrawal, ok) ==
    IF ~withdrawal.is_blocked
    THEN [called |-> TRUE,
          via |-> IF ~is_polkadex_parachain_destination(withdrawal.destination)
                  THEN "transfer_multiassets"
                  ELSE "handle_deposit",
          ok |-> ok,
          failed |-> ~ok]
    ELSE [called |-> FALSE, via |-> "none", ok |-> FALSE, failed |-> TRUE]

\* Mutant: the entries are handled first pushed first.
DrainLoopInInsertionOrder(n, withdrawals, oc) ==
    LET len == Len(withdrawals)
        taken == [k \in 1 .. len |-> [index |-> k - 1, withdrawal |-> withdrawals[k]]]
        Step(e) == ProcessWithdrawal(e.withdrawal, OutcomeAt(oc, e.index + 1))
        IsFailed(e) == Step(e).failed
        IsCalled(e) == Step(e).called
        failed_entries == SelectSeq(taken, IsFailed)
        called_entries == SelectSeq(taken, IsCalled)
    IN  [failed |-> [k \in 1 .. Len(failed_entries) |-> failed_entries[k].withdrawal],
         log |-> [k \in 1 .. Len(called_entries) |->
                     [block |-> n,
                      index |-> called_entries[k].index,
                      withdrawal |-> called_entries[k].withdrawal,
                      via |-> Step(called_entries[k]).via,
                      ok |-> Step(called_entries[k]).ok]],
         panic |-> Len(failed_entries) > PendingWithdrawalsLimit]

\* while let Some(withdrawal) = withdrawals.pop() { ... }: pop() yields the
\* entries last pushed first; `failed` is failed_withdrawal after the loop,
\* `log` the executor calls in the order they are made, `panic` whether a
\* try_push(..).expect("Vector Overflow") fails.
DrainLoop(n, withdrawals, oc) ==
    LET len == Len(withdrawals)
        popped == [k \in 1 .. len |->
                      [index |-> len - k, withdrawal |-> withdrawals[len - k + 1]]]
        Step(e) == ProcessWithdrawal(e.withdrawal, OutcomeAt(oc, e.index + 1))
        IsFailed(e) == Step(e).failed
        IsCalled(e) == Step(e).called
        failed_entries == SelectSeq(popped, IsFailed)
        called_entries == SelectSeq(popped, IsCalled)
    IN  [failed |-> [k \in 1 .. Len(failed_entries) |-> failed_entries[k].withdrawal],
         log |-> [k \in 1 .. Len(called_entries) |->
                     [block |-> n,
                      index |-> called_entries[k].index,
                      withdrawal |-> called_entries[k].withdrawal,
                      via |-> Step(called_entries[k]).via,
                      ok |-> Step(called_entries[k]).ok]],
         panic |-> Len(failed_entries) > PendingWithdrawalsLimit]

\* Mutant: the hook keeps only the failed bucket it has just written.
on_initialize_forgetting_failed(n, oc) ==
    \E d \in {DrainLoop(n, PendingWithdrawals[n], oc)} :
        /\ PendingWithdrawals' = [PendingWithdrawals EXCEPT ![n] = <<>>]
        /\ FailedWithdrawals' = [b \in Blocks |-> IF b = n THEN d.failed ELSE <<>>]
        /\ IngressMessages' = <<>>
        /\ executed' = executed \o d.log
        /\ lastCall' = [op |-> "on_initialize", origin |-> Root, args |-> [n |-> n],
                        result |-> IF d.panic THEN "Panic" ELSE "Ok"]

on_initialize(n, oc) ==
    \E d \in {DrainLoop(n, PendingWithdrawals[n], oc)} :
        /\ PendingWithdrawals' = [PendingWithdrawals EXCEPT ![n] = <<>>]
        /\ FailedWithdrawals' = [FailedWithdrawals EXCEPT ![n] = d.failed]
        /\ IngressMessages' = <<>>
        /\ executed' = executed \o d.log
        /\ lastCall' = [op |-> "on_initialize", origin |-> Root, args |-> [n |-> n],
                        result |-> IF d.panic THEN "Panic" ELSE "Ok"]

\* The block advance: the block number is incremented and the hook runs.
NextBlock ==
    /\ block < MaxBlock
    /\ block' = block + 1
    /\ \E oc \in [1 .. OutcomePeriod -> BOOLEAN] : on_initialize(block + 1, oc)
    /\ UNCHANGED <<ActiveTheaKey, WithdrawNonce, ActiveCouncilMembers,
                   PendingCouncilMembers, Proposals, accepted, calls>>
    /\ UNCHANGED assetVars
    /\ UNCHANGED retainVars

---------------------------------------------------------------------------
(* xcm-helper: the asset table and the whitelist *)

ParachainNetworkId == 1
ParachainId == 2040
NativeCurrencyId == 0
IdentifierLimit == 1000
WhitelistedTokensLimit == 50

\* Option<T>: Some(x) is <<x>>, None is <<>>.
Some(x) == <<x>>
None == <<>>

\* xcm::latest::{Junction, MultiLocation, AssetId}
Parachain(id) == [kind |-> "Parachain", id |-> id]
GeneralIndex(id) == [kind |-> "GeneralIndex", id |-> id]
MultiLocation(parents, interior) == [parents |-> parents, interior |-> interior]
Concrete(location) == [kind |-> "Concrete", location |-> location]
Abstract == [kind |-> "Abstract", location |-> MultiLocation(0, <<>>)]

\* MultiLocation::parent(), the location of the pallet's test.
Parent == MultiLocation(1, <<>>)
\* The location is_native_asset compares with.
NativeLocation == MultiLocation(1, <<Parachain(ParachainId)>>)
\* An asset of a sibling parachain.
SiblingAsset == MultiLocation(1, <<Parachain(2000), GeneralIndex(7)>>)
Locations == {Parent, NativeLocation, SiblingAsset}

\* SCALE: the index of a Junction variant, and the variant of an index.
JunctionIndex(kind) == IF kind = "Parachain" THEN 0 ELSE 5
JunctionKind(index) == IF index = 0 THEN "Parachain" ELSE "GeneralIndex"

\* SCALE encoding of Junctions: the number of junctions, then each junction
\* as its variant index and its value.
RECURSIVE encode_junctions(_)
encode_junctions(interior) ==
    IF interior = <<>>
    THEN <<>>
    ELSE <<JunctionIndex(Head(interior).kind), Head(interior).id>>
             \o encode_junctions(Tail(interior))

\* Mutant: the location alone is encoded, without the asset type.
encode_location_only(location) ==
    <<location.parents, Len(location.interior)>> \o encode_junctions(location.interior)

\* ParachainAsset { location, asset_type: AssetType::Fungible }.encode()
encode_parachain_asset(location) ==
    <<location.parents, Len(location.interior)>>
        \o encode_junctions(location.interior) \o <<0>>

\* <ParachainAsset as Decode>::decode(&mut &bytes[..]).ok(), its location:
\* None when the input ends early or a variant index is not one of the type.
decode_parachain_asset(bytes) ==
    IF Len(bytes) < 2
    THEN None
    ELSE LET n == bytes[2]
             end == 2 + 2 * n + 1
         IN  IF \/ Len(bytes) < end
                \/ bytes[end] \notin {0, 1}
                \/ \E k \in 1 .. n : bytes[2 * k + 1] \notin {0, 5}
             THEN None
             ELSE Some(MultiLocation(bytes[1],
                                     [k \in 1 .. n |->
                                         [kind |-> JunctionKind(bytes[2 * k + 1]),
                                          id |-> bytes[2 * k + 2]]]))

get_asset_info(asset) ==
    IF asset.kind = "Concrete"
    THEN LET asset_identifier == encode_parachain_asset(asset.location)
         IN  IF Len(asset_identifier) > IdentifierLimit
             THEN [result |-> "IdentifierLengthMismatch", network_id |-> 0,
                   asset_identifier |-> <<>>, identifier_length |-> 0]
             ELSE [result |-> "Ok", network_id |-> ParachainNetworkId,
                   asset_identifier |-> asset_identifier,
                   identifier_length |-> Len(asset_identifier)]
    ELSE [result |-> "AssetIdAbstractNotHandled", network_id |-> 0,
          asset_identifier |-> <<>>, identifier_length |-> 0]

\* u128::from_le_bytes(keccak_256(derived_asset_id)[0..16]): the hash is
\* modelled by a polynomial in the bytes, which is one-to-one on the derived
\* ids of Locations and never NativeCurrencyId.
HashModulus == 65521
RECURSIVE get_asset_id(_)
get_asset_id(derived_asset_id) ==
    IF derived_asset_id = <<>>
    THEN 1
    ELSE (get_asset_id(SubSeq(derived_asset_id, 1, Len(derived_asset_id) - 1)) * 257
              + derived_asset_id[Len(derived_asset_id)]) % HashModulus

\* `identifier_length as u8`
AsU8(n) == n % 256

generate_asset_id_for_parachain(asset) ==
    LET info == get_asset_info(asset)
    IN  IF info.result # "Ok"
        THEN [result |-> info.result, asset_id |-> 0]
        ELSE [result |-> "Ok",
              asset_id |-> get_asset_id(<<info.network_id, AsU8(info.identifier_length)>>
                                            \o info.asset_identifier)]

\* The asset ids of the model: the native currency, the ids of Locations and
\* an id that belongs to no location of the model.
UnknownAssetId == 100
AssetIds ==
    {NativeCurrencyId, UnknownAssetId}
        \cup {generate_asset_id_for_parachain(Concrete(l)).asset_id : l \in Locations}

\* TheaAssets is a ValueQuery map: a key without entry reads as the default.
NoTheaAssets == [id \in AssetIds |-> <<0, 0, <<>>>>]

\* T::AssetManager::create (pallet_assets): an id that exists is refused.
AssetManager_create(asset_id) == IF asset_id \in Asset THEN "InUse" ELSE "Ok"

\* Mutant: the lookup of an id without entry derives the location whose id
\* it is.
convert_asset_id_to_location_guessing(asset_id) ==
    IF TheaAssets[asset_id][3] # <<>>
    THEN decode_parachain_asset(TheaAssets[asset_id][3])
    ELSE IF \E l \in Locations :
                generate_asset_id_for_parachain(Concrete(l)).asset_id = asset_id
         THEN Some(CHOOSE l \in Locations :
                       generate_asset_id_for_parachain(Concrete(l)).asset_id = asset_id)
         ELSE None

convert_asset_id_to_location(asset_id) ==
    LET asset_identifier == TheaAssets[asset_id][3]
    IN  decode_parachain_asset(asset_identifier)

convert_location_to_asset_id(location) ==
    LET r == generate_asset_id_for_parachain(Concrete(location))
    IN  IF r.result = "Ok" THEN Some(r.asset_id) ELSE None

\* T::AssetCreateUpdateOrigin::ensure_origin (EnsureRoot)
AssetCreateUpdateOrigin(origin) == ensure_root(origin)

\* Mutant: the answer of the AssetManager is not looked at.
create_parachain_asset_ignoring_create(origin, asset) ==
    LET info == get_asset_info(asset)
        id == generate_asset_id_for_parachain(asset)
        Untouched(result) ==
            [result |-> result, assets |-> TheaAssets, ledger |-> Asset, created |-> None]
    IN  IF ~AssetCreateUpdateOrigin(origin) THEN Untouched("BadOrigin")
        ELSE IF info.result # "Ok" THEN Untouched(info.result)
        ELSE IF id.result # "Ok" THEN Untouched(id.result)
        ELSE [result |-> "Ok",
              assets |-> [TheaAssets EXCEPT
                             ![id.asset_id] = <<info.network_id,
                                                AsU8(info.identifier_length),
                                                info.asset_identifier>>],
              ledger |-> Asset \cup {id.asset_id},
              created |-> Some(id.asset_id)]

create_parachain_asset_body(origin, asset) ==
    LET info == get_asset_info(asset)
        id == generate_asset_id_for_parachain(asset)
        Untouched(result) ==
            [result |-> result, assets |-> TheaAssets, ledger |-> Asset, created |-> None]
    IN  IF ~AssetCreateUpdateOrigin(origin) THEN Untouched("BadOrigin")
        ELSE IF info.result # "Ok" THEN Untouched(info.result)
        ELSE IF id.result # "Ok" THEN Untouched(id.result)
        ELSE IF AssetManager_create(id.asset_id) # "Ok"
             THEN Untouched(AssetManager_create(id.asset_id))
        ELSE [result |-> "Ok",
              assets |-> [TheaAssets EXCEPT
                             ![id.asset_id] = <<info.network_id,
                                                AsU8(info.identifier_length),
                                                info.asset_identifier>>],
              ledger |-> Asset \cup {id.asset_id},
              created |-> Some(id.asset_id)]

create_parachain_asset(origin, asset) ==
    /\ calls < MaxAssetCalls
    /\ LET r == create_parachain_asset_body(origin, asset)
       IN  /\ TheaAssets' = StorageLayer(r.result, r.assets, TheaAssets)
           /\ Asset' = StorageLayer(r.result, r.ledger, Asset)
           /\ registered' = IF r.result = "Ok"
                            THEN registered \cup {<<r.created[1], asset.location>>}
                            ELSE registered
           /\ lastCall' = [op |-> "create_parachain_asset", origin |-> origin,
                           args |-> [asset |-> asset, created |-> r.created],
                           result |-> r.result]
    /\ calls' = calls + 1
    /\ UNCHANGED <<block, ActiveTheaKey, WithdrawNonce, PendingWithdrawals,
                   FailedWithdrawals, IngressMessages, ActiveCouncilMembers,
                   PendingCouncilMembers, Proposals, executed, accepted,
                   WhitelistedTokens>>
    /\ UNCHANGED retainVars

\* Mutant: the token is pushed without looking for it in the list.
whitelist_token_unchecked(origin, token) ==
    IF ~AssetCreateUpdateOrigin(origin)
    THEN [result |-> "BadOrigin", tokens |-> WhitelistedTokens]
    ELSE IF Len(WhitelistedTokens) >= WhitelistedTokensLimit
         THEN [result |-> "WhitelistedTokensLimitReached", tokens |-> WhitelistedTokens]
         ELSE [result |-> "Ok", tokens |-> Append(WhitelistedTokens, token)]

whitelist_token_body(origin, token) ==
    IF ~AssetCreateUpdateOrigin(origin)
    THEN [result |-> "BadOrigin", tokens |-> WhitelistedTokens]
    ELSE IF token \in Range(WhitelistedTokens)
         THEN [result |-> "TokenIsAlreadyWhitelisted", tokens |-> WhitelistedTokens]
         ELSE IF Len(WhitelistedTokens) >= WhitelistedTokensLimit
              THEN [result |-> "WhitelistedTokensLimitReached",
                    tokens |-> WhitelistedTokens]
              ELSE [result |-> "Ok", tokens |-> Append(WhitelistedTokens, token)]

whitelist_token(origin, token) ==
    /\ calls < MaxAssetCalls
    /\ LET r == whitelist_token_body(origin, token)
       IN  /\ WhitelistedTokens' = StorageLayer(r.result, r.tokens, WhitelistedTokens)
           /\ lastCall' = [op |-> "whitelist_token", origin |-> origin,
                           args |-> [token |-> token],
                           result |-> r.result]
    /\ calls' = calls + 1
    /\ UNCHANGED <<block, ActiveTheaKey, WithdrawNonce, PendingWithdrawals,
                   FailedWithdrawals, IngressMessages, ActiveCouncilMembers,
                   PendingCouncilMembers, Proposals, executed, accepted,
                   TheaAssets, Asset, registered>>
    /\ UNCHANGED retainVars

\* The clock is at 0 and the pending members, if any, were admitted then.
NoneRetained ==
    /\ Timestamp = 0
    /\ PendingSince = [k \in DOMAIN PendingCouncilMembers |-> 0]

\* No asset created, no token whitelisted.
NoAssets ==
    /\ TheaAssets = NoTheaAssets
    /\ WhitelistedTokens = <<>>
    /\ Asset = {}
    /\ registered = {}

---------------------------------------------------------------------------
(* Initial states and the next-state relation *)

NoCall == [op |-> "none", origin |-> Root, args |-> [n |-> 0], result |-> "Ok"]

NoBuckets == [b \in Blocks |-> <<>>]

NoProposals == [p \in ProposalKeys |-> <<>>]

\* The chain right after genesis: nothing queued, no relay key, nonce 0, and
\* the council storage empty.
Genesis ==
    /\ ActiveTheaKey = NoKey
    /\ WithdrawNonce = U32(0)
    /\ PendingWithdrawals = NoBuckets
    /\ IngressMessages = <<>>
    /\ ActiveCouncilMembers = <<>>

\* The chain set up for operation: the relay key K1 is set and the council
\* has the three members of the pallet's tests (setup_council_members).
Running ==
    /\ ActiveTheaKey = "K1"
    /\ WithdrawNonce = U32(0)
    /\ PendingWithdrawals = NoBuckets
    /\ IngressMessages = <<>>
    /\ ActiveCouncilMembers = <<1, 2, 3>>

\* The chain after long use: the relayers have had u32::MAX calls of
\* withdraw_asset accepted, the bucket of the next execution block is one
\* entry short of its capacity, and the current block has already queued one
\* message less than IngressMessages holds (deposit_asset pushes one
\* AssetDeposited for every XCM deposit).
Aged ==
    /\ ActiveTheaKey = "K1"
    /\ WithdrawNonce = U32_MAX
    /\ PendingWithdrawals =
           [NoBuckets EXCEPT
               ![ExecutionBlock(1)] = Repeat(PendingWithdrawal("A1", "Local", FALSE),
                                             PendingWithdrawalsLimit - 1)]
    /\ IngressMessages = Repeat(AssetDeposited, IngressMessageLimit - 1)
    /\ ActiveCouncilMembers = <<1, 2, 3>>

Init ==
    /\ block = 1
    /\ Genesis \/ Running \/ Aged
    /\ PendingCouncilMembers = <<>>
    /\ Proposals = NoProposals
    /\ FailedWithdrawals = NoBuckets
    /\ executed = <<>>
    /\ accepted = <<>>
    /\ lastCall = NoCall
    /\ calls = 0
    /\ NoAssets
    /\ NoneRetained

\* The inputs the extrinsics are called with: account 1 is a council member
\* of the Running and Aged chains, account 4 never is.

\* The current nonce and the one before it (the one after it at nonce 0).
NonceInputs ==
    {WithdrawNonce} \cup
        (IF WithdrawNonce.lo > 0
         THEN {[WithdrawNonce EXCEPT !.lo = @ - 1]}
         ELSE {[WithdrawNonce EXCEPT !.lo = @ + 1]})

\* Signatures presented with (payload, nonce): made over that message with
\* either key, or made with K1 over another nonce or another payload.
WithdrawSignatureInputs(payload, nonce) ==
    {Signature(k, WithdrawMsg(payload, nonce)) : k \in Keys}
        \cup {Signature("K1", WithdrawMsg(payload, n)) : n \in NonceInputs}
        \cup {Signature("K1", WithdrawMsg(p, nonce)) : p \in Payloads}

KeySignatureInputs == {Signature(k, KeyMsg(new)) : k \in Keys, new \in Keys}

VetoBlockInputs == {b \in Blocks : block <= b /\ b <= block + WithdrawalExecutionBlockDiff}
VetoIndexInputs == 0 .. 2

Next ==
    \/ \E payload \in Payloads, withdraw_nonce \in NonceInputs :
           \E signature \in WithdrawSignatureInputs(payload, withdraw_nonce) :
               withdraw_asset(Signed(1), payload, withdraw_nonce, signature)
    \/ withdraw_asset(Root, <<P1>>, WithdrawNonce,
                      Signature("K1", WithdrawMsg(<<P1>>, WithdrawNonce)))
    \/ \E new_thea_key \in Keys, signature \in KeySignatureInputs :
           change_thea_key(Signed(1), new_thea_key, signature)
    \/ change_thea_key(Root, "K2", Signature("K1", KeyMsg("K2")))
    \/ \E thea_key \in Keys : set_thea_key(Root, thea_key)
    \/ set_thea_key(Signed(1), "K2")
    \/ \E block_no \in VetoBlockInputs, index \in VetoIndexInputs :
           delete_transaction(Signed(1), block_no, index)
    \/ delete_transaction(Signed(4), ExecutionBlock(block), 0)
    \/ NextBlock

Spec == Init /\ [][Next]_vars

---------------------------------------------------------------------------
(* The council: initial states and next-state relation *)

\* The accounts m, m + 1, .., n in this order.
AccountsFromTo(m, n) == [i \in 1 .. (n - m + 1) |-> m + i - 1]
\* An account that is neither a first council member nor a candidate.
Outsider == 11

\* The council of the pallet's tests with nothing pending.
Seated ==
    /\ ActiveCouncilMembers = <<1, 2, 3>>
    /\ PendingCouncilMembers = <<>>

\* The council after its members 3 and 2 were expelled.
Sole ==
    /\ ActiveCouncilMembers = <<1>>
    /\ PendingCouncilMembers = <<>>

\* Ten admitted accounts have not claimed their membership yet.
PendingFull ==
    /\ ActiveCouncilMembers = <<1, 2, 3>>
    /\ PendingCouncilMembers =
           AccountsFromTo(Outsider, Outsider + PendingCouncilMembersLimit - 1)

\* The council has grown to its capacity and one admitted account has not
\* claimed its membership yet.
ActiveFull ==
    /\ ActiveCouncilMembers = AccountsFromTo(1, ActiveCouncilMembersLimit)
    /\ PendingCouncilMembers = <<Outsider>>

\* The chain in block 1 after the relayers' first withdraw_asset call, with the
\* batch (P2, P1), was accepted: the council has two withdrawals to veto.
InitCouncil ==
    /\ block = 1
    /\ ActiveTheaKey = "K1"
    /\ WithdrawNonce = U32(1)
    /\ PendingWithdrawals =
           [NoBuckets EXCEPT
               ![ExecutionBlock(1)] = <<PendingWithdrawal(P2.asset, P2.destination, FALSE),
                                        PendingWithdrawal(P1.asset, P1.destination, FALSE)>>]
    /\ FailedWithdrawals = NoBuckets
    /\ IngressMessages = <<>>
    /\ Seated \/ Sole \/ PendingFull \/ ActiveFull
    /\ Proposals = NoProposals
    /\ executed = <<>>
    /\ accepted = <<[block |-> 1, pos |-> 0, payload |-> <<P2, P1>>, nonce |-> U32(0),
                     signature |-> Signature("K1", WithdrawMsg(<<P2, P1>>, U32(0)))]>>
    /\ lastCall = NoCall
    /\ calls = 0
    /\ NoAssets
    /\ NoneRetained

\* The callers of the council's extrinsics: the candidates (1, 2, 3 are the
\* first members) and the outsider, who is a pending member of PendingFull and
\* ActiveFull.
NextCouncil ==
    \/ \E sender \in Candidates, new_member \in Candidates :
           add_member(Signed(sender), new_member)
    \/ add_member(Signed(Outsider), 4)
    \/ add_member(Root, 4)
    \/ \E sender \in Candidates, member_to_be_removed \in Candidates :
           remove_member(Signed(sender), member_to_be_removed)
    \/ remove_member(Signed(Outsider), 3)
    \/ \E sender \in Candidates \cup {Outsider} : claim_membership(Signed(sender))
    \/ claim_membership(Root)
    \/ \E sender \in Candidates \cup {Outsider}, index \in 0 .. 1 :
           delete_transaction(Signed(sender), ExecutionBlock(1), index)

SpecCouncil == InitCouncil /\ [][NextCouncil]_vars

---------------------------------------------------------------------------
(* Vocabulary of the properties *)

\* The step is the dispatch of extrinsic `op`.
Dispatched(op) == calls' = calls + 1 /\ lastCall'.op = op
\* The step is a block advance, which drains the bucket of block'.
Drained == block' = block + 1
\* The executor calls made in the step.
NewLog == SubSeq(executed', Len(executed) + 1, Len(executed'))
\* Number of positions of s whose element is in set S.
CountIn(s, S) == Cardinality({i \in DOMAIN s : s[i] \in S})
IsMember(origin) == origin.kind = "Signed" /\ origin.who \in Range(ActiveCouncilMembers)

---------------------------------------------------------------------------
(* C1 *)

\* C1: when on_initialize(n) drains PendingWithdrawals[n], no entry whose
\* is_blocked flag is set is passed to the executor (transfer_multiassets or
\* handle_deposit), whatever the executor answers for the other entries; every
\* such entry is in FailedWithdrawals[n] afterwards.
C1_BlockedNotExecuted ==
    [][Drained =>
        LET n == block'
            bucket == PendingWithdrawals[n]
            blocked == {w \in Range(bucket) : w.is_blocked}
            log == NewLog
        IN  /\ \A k \in DOMAIN log : ~log[k].withdrawal.is_blocked
            /\ \A i \in DOMAIN bucket :
                   bucket[i].is_blocked =>
                       /\ \A k \in DOMAIN log : log[k].index # i - 1
                       /\ bucket[i] \in Range(FailedWithdrawals'[n])
            /\ CountIn(FailedWithdrawals'[n], blocked) = CountIn(bucket, blocked)]_vars

\* A drain has just moved a blocked entry to the failed bucket and passed
\* another entry of the same bucket to the executor.
C1_Witness ==
    /\ lastCall.op = "on_initialize"
    /\ \E j \in DOMAIN FailedWithdrawals[block] : FailedWithdrawals[block][j].is_blocked
    /\ \E k \in DOMAIN executed : executed[k].block = block

---------------------------------------------------------------------------
(* C2 *)

\* C2: a withdraw_asset call accepted in block b appends its entries to
\* PendingWithdrawals[b + WithdrawalExecutionBlockDiff] and changes no other
\* bucket; until the block number reaches b + WithdrawalExecutionBlockDiff the
\* entries stay in that bucket at the positions they were pushed to, none of
\* them has been passed to the executor, and block_by_ele on each of them
\* succeeds.
C2_Pending ==
    \A a \in DOMAIN accepted :
        LET t == accepted[a].block + WithdrawalExecutionBlockDiff
        IN  block < t =>
                /\ \A x \in DOMAIN executed : executed[x].block # t
                /\ \A j \in DOMAIN accepted[a].payload :
                       LET i == accepted[a].pos + j
                       IN  /\ i <= Len(PendingWithdrawals[t])
                           /\ PendingWithdrawals[t][i].asset = accepted[a].payload[j].asset
                           /\ PendingWithdrawals[t][i].destination =
                                  accepted[a].payload[j].destination
                           /\ block_by_ele(t, i - 1).result = "Ok"

C2_ExecutionDelay ==
    [][/\ C2_Pending'
       /\ (Dispatched("withdraw_asset") /\ lastCall'.result = "Ok") =>
              LET t == block + WithdrawalExecutionBlockDiff
                  payload == lastCall'.args.payload
              IN  /\ \A b \in Blocks \ {t} : PendingWithdrawals'[b] = PendingWithdrawals[b]
                  /\ PendingWithdrawals'[t] =
                         PendingWithdrawals[t] \o
                             [j \in DOMAIN payload |->
                                 PendingWithdrawal(payload[j].asset, payload[j].destination,
                                                   FALSE)]]_vars

\* A withdrawal accepted in block b has been blocked by the council in block
\* b + 1, before its execution block.
C2_Witness ==
    /\ lastCall.op = "delete_transaction"
    /\ lastCall.result = "Ok"
    /\ \E a \in DOMAIN accepted :
           /\ block = accepted[a].block + 1
           /\ block < accepted[a].block + WithdrawalExecutionBlockDiff
           /\ lastCall.args.block_no = accepted[a].block + WithdrawalExecutionBlockDiff
           /\ lastCall.args.index = accepted[a].pos
           /\ PendingWithdrawals[lastCall.args.block_no][accepted[a].pos + 1].is_blocked

---------------------------------------------------------------------------
(* C3 *)

\* C3: delete_transaction(N, index) by a council member while block N is
\* still to be drained and the bucket of N has an entry at index returns Ok
\* and sets is_blocked of that entry; the drain of N puts every entry blocked
\* this way into FailedWithdrawals[N] without a call to the executor; and
\* delete_transaction(N, index) by a council member once N has been drained
\* fails with IndexNotFound and changes no storage.
C3_VetoBeforeAndAfterDrain ==
    [][/\ (Dispatched("delete_transaction") /\ IsMember(lastCall'.origin)) =>
              LET N == lastCall'.args.block_no
                  index == lastCall'.args.index
              IN  /\ (N > block /\ index < Len(PendingWithdrawals[N])) =>
                          /\ lastCall'.result = "Ok"
                          /\ PendingWithdrawals'[N][index + 1].is_blocked
                          /\ PendingWithdrawals'[N][index + 1].asset =
                                 PendingWithdrawals[N][index + 1].asset
                  /\ N <= block =>
                          /\ lastCall'.result = "IndexNotFound"
                          /\ UNCHANGED <<block, ActiveTheaKey, WithdrawNonce,
                                         PendingWithdrawals, FailedWithdrawals,
                                         IngressMessages, ActiveCouncilMembers,
                                         PendingCouncilMembers, Proposals, executed>>
       /\ Drained =>
              \A i \in DOMAIN PendingWithdrawals[block'] :
                  PendingWithdrawals[block'][i].is_blocked =>
                      /\ PendingWithdrawals[block'][i] \in Range(FailedWithdrawals'[block'])
                      /\ \A x \in DOMAIN executed' :
                             ~(executed'[x].block = block' /\ executed'[x].index = i - 1)]_vars

\* A council member's veto on a drained block has just failed with
\* IndexNotFound, and the failed bucket of that block holds an entry that was
\* vetoed in time.
C3_Witness ==
    /\ lastCall.op = "delete_transaction"
    /\ lastCall.result = "IndexNotFound"
    /\ IsMember(lastCall.origin)
    /\ lastCall.args.block_no <= block
    /\ \E j \in DOMAIN FailedWithdrawals[lastCall.args.block_no] :
           FailedWithdrawals[lastCall.args.block_no][j].is_blocked

---------------------------------------------------------------------------
(* C4 *)

\* C4: the drain of block n handles every entry of PendingWithdrawals[n]
\* exactly once, for every combination of executor answers: the bucket is
\* empty afterwards, a blocked entry causes no executor call and every other
\* entry exactly one, and FailedWithdrawals[n] holds exactly the blocked
\* entries and the entries whose executor call failed, so that a failed call
\* does not keep the remaining entries from being handled.
C4_EachEntryOnce ==
    [][Drained =>
        LET n == block'
            bucket == PendingWithdrawals[n]
            log == NewLog
            CallsFor(i) == {k \in DOMAIN log : log[k].index = i - 1}
            Fails(i) == bucket[i].is_blocked \/ \E k \in CallsFor(i) : ~log[k].ok
        IN  /\ PendingWithdrawals'[n] = <<>>
            /\ lastCall'.result = "Ok"
            /\ \A k \in DOMAIN log : log[k].index + 1 \in DOMAIN bucket
            /\ \A i \in DOMAIN bucket :
                   /\ Cardinality(CallsFor(i)) = IF bucket[i].is_blocked THEN 0 ELSE 1
                   /\ \A k \in CallsFor(i) : log[k].withdrawal = bucket[i]
            /\ LET failing == {i \in DOMAIN bucket : Fails(i)}
                IN  /\ Len(FailedWithdrawals'[n]) = Cardinality(failing)
                    /\ \A w \in Range(bucket) \cup Range(FailedWithdrawals'[n]) :
                           CountIn(FailedWithdrawals'[n], {w}) =
                               Cardinality({i \in failing : bucket[i] = w})]_vars

\* A drain of a bucket in which an executor call failed and a later call
\* succeeded: exactly the failed entry is in the failed bucket.
C4_Witness ==
    /\ lastCall.op = "on_initialize"
    /\ PendingWithdrawals[block] = <<>>
    /\ Len(FailedWithdrawals[block]) = 1
    /\ \E x, y \in DOMAIN executed :
           /\ x < y
           /\ executed[x].block = block /\ executed[y].block = block
           /\ ~executed[x].ok /\ executed[y].ok
           /\ FailedWithdrawals[block][1] = executed[x].withdrawal

---------------------------------------------------------------------------
(* C5, C6 *)

\* C5: a withdraw_asset call by a signed origin that repeats the payload,
\* nonce and signature of an accepted call fails with NonceIsNotValid and
\* appends nothing to any pending bucket.
C5_ReplayRejected ==
    [][(/\ Dispatched("withdraw_asset")
        /\ lastCall'.origin.kind = "Signed"
        /\ \E a \in DOMAIN accepted :
               /\ accepted[a].payload = lastCall'.args.payload
               /\ accepted[a].nonce = lastCall'.args.withdraw_nonce
               /\ accepted[a].signature = lastCall'.args.signature)
       => /\ lastCall'.result = "NonceIsNotValid"
          /\ PendingWithdrawals' = PendingWithdrawals
          /\ accepted' = accepted]_vars

\* C6: the nonces of the accepted withdraw_asset calls are strictly
\* increasing in the order of acceptance, for every value of the u32 counter,
\* so that no two accepted calls consume the same nonce.
C6_NoncesStrictlyIncrease ==
    \A i, j \in DOMAIN accepted :
        i < j => LessU32(accepted[i].nonce, accepted[j].nonce)

---------------------------------------------------------------------------
(* C7 *)

\* C7: withdraw_asset returns Ok only if the signature is by the active key
\* over (payload, WithdrawNonce); a call whose signature is not by the active
\* key over (payload, WithdrawNonce) inserts nothing and leaves the nonce
\* unchanged, and when it comes from a signed origin with the expected nonce
\* while a key is set it fails with SignatureVerificationFailed; this holds for
\* the key a rotation has replaced.
C7_SignatureRequired ==
    [][Dispatched("withdraw_asset") =>
        LET args == lastCall'.args
            valid == /\ ActiveTheaKey # NoKey
                     /\ args.signature.signer = ActiveTheaKey
                     /\ args.signature.msg = WithdrawMsg(args.payload, WithdrawNonce)
        IN  /\ lastCall'.result = "Ok" => valid
            /\ ~valid =>
                   /\ lastCall'.result # "Ok"
                   /\ UNCHANGED <<PendingWithdrawals, WithdrawNonce, accepted>>
            /\ (/\ ~valid
                /\ lastCall'.origin.kind = "Signed"
                /\ args.withdraw_nonce = WithdrawNonce
                /\ ActiveTheaKey # NoKey) =>
                   lastCall'.result = "SignatureVerificationFailed"]_vars

\* After a rotation, a withdrawal signed by the replaced key over the
\* expected message has just been rejected.
C7_Witness ==
    /\ lastCall.op = "withdraw_asset"
    /\ lastCall.result = "SignatureVerificationFailed"
    /\ lastCall.args.signature.signer # ActiveTheaKey
    /\ lastCall.args.signature.msg = WithdrawMsg(lastCall.args.payload, WithdrawNonce)
    /\ \E m \in DOMAIN IngressMessages :
           /\ IngressMessages[m] = TheaKeyChanged(ActiveTheaKey)
           /\ ActiveTheaKey # lastCall.args.signature.signer

---------------------------------------------------------------------------
(* C8 *)

\* C8: set_thea_key returns Ok only for the root origin and only while no key
\* is set; once a key is set, the key changes only in a change_thea_key call
\* whose signature is by the current key over the new key.
C8_SetOnlyWhenUnset ==
    [][/\ (Dispatched("set_thea_key") /\ lastCall'.result = "Ok") =>
              /\ lastCall'.origin = Root
              /\ ActiveTheaKey = NoKey
       /\ (ActiveTheaKey # NoKey /\ ActiveTheaKey' # ActiveTheaKey) =>
              /\ Dispatched("change_thea_key")
              /\ lastCall'.args.signature = Signature(ActiveTheaKey, KeyMsg(ActiveTheaKey'))]_vars

---------------------------------------------------------------------------
(* C9 *)

\* C9: change_thea_key by a signed origin replaces the key by new_thea_key
\* if and only if the signature is by the current key over new_thea_key; then
\* the nonce is unchanged and a TheaKeyChanged message is appended to the
\* ingress messages; when no key is set or the signature is bad the call fails
\* and the key is unchanged.
C9_RotationIffSignature ==
    [][(Dispatched("change_thea_key") /\ lastCall'.origin.kind = "Signed") =>
        LET args == lastCall'.args
            valid == /\ ActiveTheaKey # NoKey
                     /\ args.signature = Signature(ActiveTheaKey, KeyMsg(args.new_thea_key))
        IN  /\ valid =>
                   /\ lastCall'.result = "Ok"
                   /\ ActiveTheaKey' = args.new_thea_key
                   /\ WithdrawNonce' = WithdrawNonce
                   /\ IngressMessages' =
                          Append(IngressMessages, TheaKeyChanged(args.new_thea_key))
            /\ ~valid =>
                   /\ lastCall'.result # "Ok"
                   /\ ActiveTheaKey' = ActiveTheaKey]_vars

\* C9 amended: change_thea_key by a signed origin replaces the key by
\* new_thea_key if and only if the signature is by the current key over
\* new_thea_key and the ingress messages of the block number fewer than
\* IngressMessageLimit; then the nonce is unchanged and a TheaKeyChanged
\* message is appended; with a valid signature and full ingress messages the
\* call fails with IngressMessagesFull; in every failing case the key, the
\* nonce and the ingress messages are unchanged.
C9_RotationIffSignatureAndRoom ==
    [][(Dispatched("change_thea_key") /\ lastCall'.origin.kind = "Signed") =>
        LET args == lastCall'.args
            valid == /\ ActiveTheaKey # NoKey
                     /\ args.signature = Signature(ActiveTheaKey, KeyMsg(args.new_thea_key))
            room == Len(IngressMessages) < IngressMessageLimit
        IN  /\ (valid /\ room) =>
                   /\ lastCall'.result = "Ok"
                   /\ ActiveTheaKey' = args.new_thea_key
                   /\ WithdrawNonce' = WithdrawNonce
                   /\ IngressMessages' =
                          Append(IngressMessages, TheaKeyChanged(args.new_thea_key))
            /\ (valid /\ ~room) => lastCall'.result = "IngressMessagesFull"
            /\ ~(valid /\ room) =>
                   /\ lastCall'.result # "Ok"
                   /\ UNCHANGED <<ActiveTheaKey, WithdrawNonce, IngressMessages>>]_vars

\* A validly signed rotation has just failed because the ingress messages
\* of the block are full.
C9_Witness ==
    /\ lastCall.op = "change_thea_key"
    /\ lastCall.result = "IngressMessagesFull"
    /\ lastCall.origin.kind = "Signed"
    /\ lastCall.args.signature = Signature(ActiveTheaKey, KeyMsg(lastCall.args.new_thea_key))
    /\ Len(IngressMessages) = IngressMessageLimit

---------------------------------------------------------------------------
(* C10 *)

\* C10: an authenticated withdraw_asset call whose payload does not fit
\* into the target bucket (PendingWithdrawalsLimit entries) fails with
\* PendingWithdrawalsLimitReached and leaves every pending bucket and the nonce
\* as they were: no entry of the batch is inserted.
C10_BatchAllOrNothing ==
    [][(/\ Dispatched("withdraw_asset")
        /\ lastCall'.origin.kind = "Signed"
        /\ ActiveTheaKey # NoKey
        /\ lastCall'.args.withdraw_nonce = WithdrawNonce
        /\ lastCall'.args.signature =
               Signature(ActiveTheaKey, WithdrawMsg(lastCall'.args.payload, WithdrawNonce))
        /\ Len(PendingWithdrawals[block + WithdrawalExecutionBlockDiff])
               + Len(lastCall'.args.payload) > PendingWithdrawalsLimit)
       => /\ lastCall'.result = "PendingWithdrawalsLimitReached"
          /\ UNCHANGED <<PendingWithdrawals, WithdrawNonce, accepted>>]_vars

\* A batch of two has just been refused at a bucket with room for one, and
\* the bucket still has that room.
C10_Witness ==
    /\ lastCall.op = "withdraw_asset"
    /\ lastCall.result = "PendingWithdrawalsLimitReached"
    /\ Len(lastCall.args.payload) = 2
    /\ Len(PendingWithdrawals[block + WithdrawalExecutionBlockDiff]) = PendingWithdrawalsLimit - 1

---------------------------------------------------------------------------
(* Vocabulary of the council properties *)

\* The step is a vote: add_member or remove_member.
VoteStep == calls' = calls + 1 /\ lastCall'.op \in {"add_member", "remove_member"}
\* The proposal the vote of the step is cast on.
VotedProposal ==
    IF lastCall'.op = "add_member"
    THEN AddNewMember(lastCall'.args.who)
    ELSE RemoveExistingMember(lastCall'.args.who)
\* floor(2n / 3) for a council of n members.
Quorum(n) == (2 * n) \div 3
\* The vote of the step is by an active member that has not voted on the
\* proposal yet.
EligibleVote ==
    /\ VoteStep
    /\ lastCall'.origin.kind = "Signed"
    /\ lastCall'.origin.who \in Range(ActiveCouncilMembers)
    /\ lastCall'.origin.who \notin Range(Proposals[VotedProposal])
\* The vote of the step brings the proposal to the quorum of the active set.
ReachesQuorum ==
    Len(Proposals[VotedProposal]) + 1 >= Quorum(Len(ActiveCouncilMembers))
\* Number of occurrences of x in s.
Occurrences(s, x) == Cardinality({i \in DOMAIN s : s[i] = x})

---------------------------------------------------------------------------
(* C11 *)

\* C11: in every reachable state, every proposal stored in Proposals has
\* fewer votes than the quorum floor(2 * |ActiveCouncilMembers| / 3) of the
\* current active set.
C11_NoStoredProposalAtQuorum ==
    \A p \in ProposalKeys :
        Proposals[p] # <<>> => Len(Proposals[p]) < Quorum(Len(ActiveCouncilMembers))

---------------------------------------------------------------------------
(* C12 *)

\* C12: a vote of an active member that has not voted yet is only recorded
\* while it leaves the vote count below floor(2n/3), n the size of the active
\* set, and applies and deletes the proposal when it brings the count to
\* floor(2n/3) or more, for every n and every proposal.
C12_AppliedAtQuorum ==
    [][EligibleVote =>
        LET p == VotedProposal
        IN  IF ReachesQuorum
            THEN /\ lastCall'.result = "Ok"
                 /\ Proposals' = [Proposals EXCEPT ![p] = <<>>]
            ELSE /\ lastCall'.result = "Ok"
                 /\ Proposals' = [Proposals EXCEPT ![p] = Append(@, lastCall'.origin.who)]
                 /\ UNCHANGED <<ActiveCouncilMembers, PendingCouncilMembers>>]_vars

\* The effect of the voted proposal can be applied: the pending list has
\* room for the member to admit, the member to expel is active.
Applicable ==
    IF VotedProposal.kind = "AddNewMember"
    THEN Len(PendingCouncilMembers) < PendingCouncilMembersLimit
    ELSE VotedProposal.who \in Range(ActiveCouncilMembers)

\* C12 amended: a vote of an active member that has not voted yet is only
\* recorded while it leaves the vote count below floor(2n/3); when it brings
\* the count to floor(2n/3) or more and the effect can be applied, the effect
\* is applied and the proposal deleted in that step (the member appended to
\* the pending list, or one occurrence of it removed from the active list);
\* when the effect cannot be applied the call fails with StorageOverflow or
\* NotActiveMember and the vote is not recorded.
C12_AppliedAtQuorumWhenApplicable ==
    [][EligibleVote =>
        LET p == VotedProposal
            who == VotedProposal.who
        IN  /\ (ReachesQuorum /\ Applicable) =>
                   /\ lastCall'.result = "Ok"
                   /\ Proposals' = [Proposals EXCEPT ![p] = <<>>]
                   /\ p.kind = "AddNewMember" =>
                          /\ PendingCouncilMembers' = Append(PendingCouncilMembers, who)
                          /\ ActiveCouncilMembers' = ActiveCouncilMembers
                   /\ p.kind = "RemoveExistingMember" =>
                          /\ PendingCouncilMembers' = PendingCouncilMembers
                          /\ Len(ActiveCouncilMembers') = Len(ActiveCouncilMembers) - 1
                          /\ \A a \in Range(ActiveCouncilMembers) :
                                 Occurrences(ActiveCouncilMembers', a) =
                                     Occurrences(ActiveCouncilMembers, a)
                                         - (IF a = who THEN 1 ELSE 0)
            /\ (ReachesQuorum /\ ~Applicable) =>
                   /\ lastCall'.result =
                          (IF p.kind = "AddNewMember"
                           THEN "StorageOverflow" ELSE "NotActiveMember")
                   /\ UNCHANGED <<Proposals, ActiveCouncilMembers, PendingCouncilMembers>>
            /\ ~ReachesQuorum =>
                   /\ lastCall'.result = "Ok"
                   /\ Proposals' = [Proposals EXCEPT ![p] = Append(@, lastCall'.origin.who)]
                   /\ UNCHANGED <<ActiveCouncilMembers, PendingCouncilMembers>>]_vars

\* In a council of two a vote has just admitted a member to the pending list
\* and deleted the proposal.
C12_Witness ==
    /\ lastCall.op = "add_member"
    /\ lastCall.result = "Ok"
    /\ Len(ActiveCouncilMembers) = 2
    /\ lastCall.origin.who \in Range(ActiveCouncilMembers)
    /\ lastCall.args.who \in Range(PendingCouncilMembers)
    /\ Proposals[AddNewMember(lastCall.args.who)] = <<>>

---------------------------------------------------------------------------
(* C13 *)

\* C13: add_member or remove_member by an account that is not in
\* ActiveCouncilMembers, an account of PendingCouncilMembers included, fails
\* with SenderNotCouncilMember and leaves the active list, the pending list and
\* the proposals unchanged.
C13_OnlyActiveMembersVote ==
    [][(/\ VoteStep
        /\ lastCall'.origin.kind = "Signed"
        /\ lastCall'.origin.who \notin Range(ActiveCouncilMembers))
       => /\ lastCall'.result = "SenderNotCouncilMember"
          /\ UNCHANGED <<ActiveCouncilMembers, PendingCouncilMembers, Proposals>>]_vars

\* The vote of a pending member has just been refused.
C13_Witness ==
    /\ lastCall.op = "add_member"
    /\ lastCall.result = "SenderNotCouncilMember"
    /\ lastCall.origin.who \in Range(PendingCouncilMembers)
    /\ lastCall.origin.who \notin Range(ActiveCouncilMembers)
    /\ Proposals[AddNewMember(lastCall.args.who)] = <<>>

---------------------------------------------------------------------------
(* C14 *)

\* C14: when a remove_member vote brings RemoveExistingMember(member) to
\* quorum and the call returns Ok, the member is not in ActiveCouncilMembers
\* afterwards.
C14_ExpelledNotActive ==
    [][(/\ EligibleVote
        /\ lastCall'.op = "remove_member"
        /\ ReachesQuorum
        /\ lastCall'.result = "Ok")
       => lastCall'.args.who \notin Range(ActiveCouncilMembers')]_vars

---------------------------------------------------------------------------
(* C15 *)

\* The council states of the admission scenario; A, B, C, D are the accounts
\* 1, 2, 3, 4.
CouncilIs(active, pending, proposals) ==
    /\ ActiveCouncilMembers = active
    /\ PendingCouncilMembers = pending
    /\ Proposals = proposals

\* C15: from active = (A, B, C) with nothing pending and no proposal, the
\* vote of A for AddNewMember(D) is only recorded; from that state the vote
\* of B admits D to the pending list and deletes the proposal; from that state
\* claim_membership by D leaves active = (A, B, C, D), nothing pending and no
\* proposal.
C15_AdmissionScenario ==
    [][/\ (/\ CouncilIs(<<1, 2, 3>>, <<>>, NoProposals)
           /\ Dispatched("add_member")
           /\ lastCall'.origin = Signed(1) /\ lastCall'.args.who = 4)
          => /\ lastCall'.result = "Ok"
             /\ CouncilIs(<<1, 2, 3>>, <<>>,
                          [NoProposals EXCEPT ![AddNewMember(4)] = <<1>>])'
       /\ (/\ CouncilIs(<<1, 2, 3>>, <<>>, [NoProposals EXCEPT ![AddNewMember(4)] = <<1>>])
           /\ Dispatched("add_member")
           /\ lastCall'.origin = Signed(2) /\ lastCall'.args.who = 4)
          => /\ lastCall'.result = "Ok"
             /\ CouncilIs(<<1, 2, 3>>, <<4>>, NoProposals)'
       /\ (/\ CouncilIs(<<1, 2, 3>>, <<4>>, NoProposals)
           /\ Dispatched("claim_membership")
           /\ lastCall'.origin = Signed(4))
          => /\ lastCall'.result = "Ok"
             /\ CouncilIs(<<1, 2, 3, 4>>, <<>>, NoProposals)']_vars

\* D has just claimed its membership at the end of the scenario.
C15_Witness ==
    /\ lastCall.op = "claim_membership"
    /\ lastCall.origin = Signed(4)
    /\ lastCall.result = "Ok"
    /\ calls = 3
    /\ CouncilIs(<<1, 2, 3, 4>>, <<>>, NoProposals)

---------------------------------------------------------------------------
(* C16 *)

\* The vote of the step would bring AddNewMember(candidate) to quorum while
\* the pending list is at capacity.
AdmitAtQuorumWhenPendingFull ==
    /\ EligibleVote
    /\ lastCall'.op = "add_member"
    /\ ReachesQuorum
    /\ Len(PendingCouncilMembers) = PendingCouncilMembersLimit

\* C16: when the vote that brings AddNewMember(candidate) to quorum finds
\* the pending list at capacity, the call fails with StorageOverflow, the
\* proposal is deleted, the voter's vote is consumed, and the candidate is not
\* admitted.
C16_VoteConsumedOnOverflow ==
    [][AdmitAtQuorumWhenPendingFull =>
        /\ lastCall'.result = "StorageOverflow"
        /\ Proposals'[VotedProposal] = <<>>
        /\ Proposals[VotedProposal] # <<>> => Proposals'[VotedProposal] # Proposals[VotedProposal]
        /\ PendingCouncilMembers' = PendingCouncilMembers]_vars

\* C16 amended: when the vote that brings AddNewMember(candidate) to quorum
\* finds the pending list at capacity, the call fails with StorageOverflow and
\* changes nothing: the vote is not recorded, the proposal keeps the votes it
\* had, and the candidate is not admitted.
C16_NothingConsumedOnOverflow ==
    [][AdmitAtQuorumWhenPendingFull =>
        /\ lastCall'.result = "StorageOverflow"
        /\ UNCHANGED <<Proposals, ActiveCouncilMembers, PendingCouncilMembers>>]_vars

\* The second vote for a candidate has just failed on the full pending list
\* and the proposal still holds the first vote only.
C16_Witness ==
    /\ lastCall.op = "add_member"
    /\ lastCall.result = "StorageOverflow"
    /\ Len(PendingCouncilMembers) = PendingCouncilMembersLimit
    /\ Len(ActiveCouncilMembers) = 3
    /\ Len(Proposals[AddNewMember(lastCall.args.who)]) = 1
    /\ lastCall.origin.who \notin Range(Proposals[AddNewMember(lastCall.args.who)])
    /\ lastCall.args.who \notin Range(PendingCouncilMembers)

---------------------------------------------------------------------------
(* C17 *)

\* C17: claim_membership by an account of the pending list while the active
\* list is at capacity fails with StorageOverflow and changes nothing: the
\* caller is still pending and not active.
C17_ClaimOnFullCouncil ==
    [][(/\ Dispatched("claim_membership")
        /\ lastCall'.origin.kind = "Signed"
        /\ lastCall'.origin.who \in Range(PendingCouncilMembers)
        /\ Len(ActiveCouncilMembers) = ActiveCouncilMembersLimit)
       => /\ lastCall'.result = "StorageOverflow"
          /\ UNCHANGED <<ActiveCouncilMembers, PendingCouncilMembers, Proposals>>]_vars

\* A pending member's claim has just failed on the full council.
C17_Witness ==
    /\ lastCall.op = "claim_membership"
    /\ lastCall.result = "StorageOverflow"
    /\ Len(ActiveCouncilMembers) = ActiveCouncilMembersLimit
    /\ lastCall.origin.who \in Range(PendingCouncilMembers)
    /\ lastCall.origin.who \notin Range(ActiveCouncilMembers)

---------------------------------------------------------------------------
(* C18 *)

\* C18: delete_transaction returns Ok only for a signed caller that is in
\* ActiveCouncilMembers; called by any other account, a pending or an expelled
\* member included, it fails with SenderNotCouncilMember and no is_blocked
\* flag changes.
C18_OnlyActiveMembersVeto ==
    [][Dispatched("delete_transaction") =>
        /\ lastCall'.result = "Ok" =>
               /\ lastCall'.origin.kind = "Signed"
               /\ lastCall'.origin.who \in Range(ActiveCouncilMembers)
        /\ (/\ lastCall'.origin.kind = "Signed"
            /\ lastCall'.origin.who \notin Range(ActiveCouncilMembers)) =>
               /\ lastCall'.result = "SenderNotCouncilMember"
               /\ PendingWithdrawals' = PendingWithdrawals]_vars

\* The veto of an expelled member on a queued, unblocked withdrawal has just
\* been refused.
C18_Witness ==
    /\ lastCall.op = "delete_transaction"
    /\ lastCall.result = "SenderNotCouncilMember"
    /\ lastCall.origin.who \in {1, 2, 3}
    /\ lastCall.origin.who \notin Range(ActiveCouncilMembers)
    /\ lastCall.args.index < Len(PendingWithdrawals[lastCall.args.block_no])
    /\ ~PendingWithdrawals[lastCall.args.block_no][lastCall.args.index + 1].is_blocked

---------------------------------------------------------------------------
(* C19 *)

\* C19: while no relay key is set, every withdraw_asset call of a signed
\* origin fails with PublicKeyNotSet, whatever nonce and signature it brings,
\* and changes nothing.
C19_NoKeyThenPublicKeyNotSet ==
    [][(/\ Dispatched("withdraw_asset")
        /\ lastCall'.origin.kind = "Signed"
        /\ ActiveTheaKey = NoKey)
       => /\ lastCall'.result = "PublicKeyNotSet"
          /\ UNCHANGED <<PendingWithdrawals, WithdrawNonce, ActiveTheaKey, accepted>>]_vars

\* C19 amended: while no relay key is set, every withdraw_asset call of a
\* signed origin fails and changes nothing, whatever signature it brings: with
\* NonceIsNotValid when its nonce is not WithdrawNonce (the nonce is compared
\* first), with PublicKeyNotSet when it is.
C19_NoKeyThenNonceOrKeyError ==
    [][(/\ Dispatched("withdraw_asset")
        /\ lastCall'.origin.kind = "Signed"
        /\ ActiveTheaKey = NoKey)
       => /\ lastCall'.result =
                 (IF lastCall'.args.withdraw_nonce # WithdrawNonce
                  THEN "NonceIsNotValid" ELSE "PublicKeyNotSet")
          /\ UNCHANGED <<PendingWithdrawals, WithdrawNonce, ActiveTheaKey, accepted>>]_vars

\* Without a key, a call with a nonce other than WithdrawNonce has just
\* failed with NonceIsNotValid.
C19_Witness ==
    /\ ActiveTheaKey = NoKey
    /\ lastCall.op = "withdraw_asset"
    /\ lastCall.origin.kind = "Signed"
    /\ lastCall.result = "NonceIsNotValid"
    /\ lastCall.args.withdraw_nonce # WithdrawNonce
    /\ accepted = <<>>

---------------------------------------------------------------------------
(* C20 *)

\* C20: a set_thea_key call that returns Ok leaves WithdrawNonce at 0.
C20_SetKeyResetsNonce ==
    [][(Dispatched("set_thea_key") /\ lastCall'.result = "Ok")
       => WithdrawNonce' = U32(0)]_vars

---------------------------------------------------------------------------
(* C21 *)

\* C21: the failed bucket of a block that has been drained is never changed
\* or removed by a later step, and the step that drains block N changes no
\* pending bucket and no failed bucket other than those of block N.
C21_FailedBucketsFinal ==
    [][/\ \A b \in Blocks :
              b <= block => FailedWithdrawals'[b] = FailedWithdrawals[b]
       /\ Drained =>
              \A b \in Blocks \ {block'} :
                  /\ PendingWithdrawals'[b] = PendingWithdrawals[b]
                  /\ FailedWithdrawals'[b] = FailedWithdrawals[b]]_vars

\* A later block has just been drained while an earlier block's failed bucket
\* holds entries and a withdrawal for a block still to come is queued.
C21_Witness ==
    /\ lastCall.op = "on_initialize"
    /\ \E b \in Blocks : b < block /\ FailedWithdrawals[b] # <<>>
    /\ \E b \in Blocks : b > block /\ PendingWithdrawals[b] # <<>>

---------------------------------------------------------------------------
(* The bridge and the council at their capacities *)

\* Every bounded list is full or one entry short of it: the bucket drained in
\* block 2 is full and the council has vetoed each of its entries, the bucket
\* of the next execution block holds one entry less, and the council is
\* PendingFull or ActiveFull.
InitCapacity ==
    /\ block = 1
    /\ ActiveTheaKey = "K1"
    /\ WithdrawNonce = U32(1)
    /\ PendingWithdrawals =
           [NoBuckets EXCEPT
               ![2] = Repeat(PendingWithdrawal("A2", "Foreign", TRUE),
                             PendingWithdrawalsLimit),
               ![ExecutionBlock(1)] = Repeat(PendingWithdrawal("A1", "Local", FALSE),
                                             PendingWithdrawalsLimit - 1)]
    /\ FailedWithdrawals = NoBuckets
    /\ IngressMessages = <<>>
    /\ PendingFull \/ ActiveFull
    /\ Proposals = NoProposals
    /\ executed = <<>>
    /\ accepted = <<>>
    /\ lastCall = NoCall
    /\ calls = 0
    /\ NoAssets
    /\ NoneRetained

NextCapacity ==
    \/ \E payload \in Payloads :
           withdraw_asset(Signed(1), payload, WithdrawNonce,
                          Signature(ActiveTheaKey, WithdrawMsg(payload, WithdrawNonce)))
    \/ \E sender \in 1 .. 3 : add_member(Signed(sender), 4)
    \/ claim_membership(Signed(Outsider))
    \/ NextBlock

SpecCapacity == InitCapacity /\ [][NextCapacity]_vars

---------------------------------------------------------------------------
(* C22 *)

WithinCapacity ==
    /\ Len(ActiveCouncilMembers) <= ActiveCouncilMembersLimit
    /\ Len(PendingCouncilMembers) <= PendingCouncilMembersLimit
    /\ \A p \in ProposalKeys : Len(Proposals[p]) <= ProposalVotesLimit
    /\ \A b \in Blocks : /\ Len(PendingWithdrawals[b]) <= PendingWithdrawalsLimit
                         /\ Len(FailedWithdrawals[b]) <= PendingWithdrawalsLimit

CapacityErrors == {"StorageOverflow", "PendingWithdrawalsLimitReached", "IngressMessagesFull"}

Storage ==
    <<ActiveTheaKey, WithdrawNonce, PendingWithdrawals, FailedWithdrawals,
      IngressMessages, ActiveCouncilMembers, PendingCouncilMembers, Proposals,
      TheaAssets, WhitelistedTokens>>

---------------------------------------------------------------------------
(* C23 *)

\* C23: a vote (add_member or remove_member) by an active member who is
\* already recorded on the proposal ends with SenderAlreadyVoted and leaves
\* the storage as it was, and no proposal's vote list ever holds the same
\* voter twice.
C23_NoSecondVote ==
    /\ [](\A p \in ProposalKeys :
              \A i, j \in DOMAIN Proposals[p] :
                  Proposals[p][i] = Proposals[p][j] => i = j)
    /\ [][(/\ VoteStep
           /\ lastCall'.origin.kind = "Signed"
           /\ lastCall'.origin.who \in Range(ActiveCouncilMembers)
           /\ lastCall'.origin.who \in Range(Proposals[VotedProposal]))
              => /\ lastCall'.result = "SenderAlreadyVoted"
                 /\ Storage' = Storage]_vars

\* An active member has just voted a second time on a proposal that still
\* holds the first vote.
C23_Witness ==
    /\ lastCall.op \in {"add_member", "remove_member"}
    /\ lastCall.result = "SenderAlreadyVoted"
    /\ lastCall.origin.who \in Range(ActiveCouncilMembers)
    /\ \E p \in ProposalKeys : lastCall.origin.who \in Range(Proposals[p])

---------------------------------------------------------------------------
(* C24 *)

\* C24: claim_membership by an account that is not in the pending list ends
\* with NotPendingMember and leaves the council's storage as it was; when the
\* call succeeds, the caller is no longer in the pending list and is in the
\* active list after the step.
C24_ClaimMovesCaller ==
    [][(Dispatched("claim_membership") /\ lastCall'.origin.kind = "Signed")
       => /\ lastCall'.args.who \notin Range(PendingCouncilMembers)
                 => /\ lastCall'.result = "NotPendingMember"
                    /\ UNCHANGED <<ActiveCouncilMembers, PendingCouncilMembers, Proposals>>
          /\ lastCall'.result = "Ok"
                 => /\ lastCall'.args.who \notin Range(PendingCouncilMembers')
                    /\ lastCall'.args.who \in Range(ActiveCouncilMembers')]_vars

---------------------------------------------------------------------------
(* C25 *)

\* C25: a veto (delete_transaction by an active council member, which calls
\* block_by_ele) on a block and an index at which the block's bucket has no
\* entry, the bucket being empty or already drained included, ends with
\* IndexNotFound and leaves the storage as it was and the executor uncalled;
\* with an entry at the index the veto does not end with IndexNotFound.
C25_IndexNotFound ==
    [][(/\ Dispatched("delete_transaction")
        /\ lastCall'.origin.kind = "Signed"
        /\ lastCall'.origin.who \in Range(ActiveCouncilMembers))
       => LET bucket == PendingWithdrawals[lastCall'.args.block_no]
          IN  IF lastCall'.args.index >= Len(bucket)
              THEN /\ lastCall'.result = "IndexNotFound"
                   /\ Storage' = Storage
                   /\ executed' = executed
              ELSE lastCall'.result # "IndexNotFound"]_vars

\* A council member has just vetoed an index of a bucket that was drained
\* with entries in it, and got IndexNotFound.
C25_Witness ==
    /\ lastCall.op = "delete_transaction"
    /\ lastCall.result = "IndexNotFound"
    /\ lastCall.args.block_no <= block
    /\ \E k \in DOMAIN executed : executed[k].block = lastCall.args.block_no

---------------------------------------------------------------------------
(* The asset table and the whitelist from genesis *)

IdOf(location) == generate_asset_id_for_parachain(Concrete(location)).asset_id

\* The whitelist one token short of its capacity.
WhitelistAlmostFull == [k \in 1 .. (WhitelistedTokensLimit - 1) |-> UnknownAssetId + k]

\* Nothing is registered. The whitelist is empty or one token short of its
\* capacity; the AssetManager has no asset, or has the asset with the id of
\* SiblingAsset (created by its own extrinsic, not by this pallet).
InitAssets ==
    /\ block = 1
    /\ Running
    /\ PendingCouncilMembers = <<>>
    /\ Proposals = NoProposals
    /\ FailedWithdrawals = NoBuckets
    /\ executed = <<>>
    /\ accepted = <<>>
    /\ lastCall = NoCall
    /\ calls = 0
    /\ TheaAssets = NoTheaAssets
    /\ WhitelistedTokens \in {<<>>, WhitelistAlmostFull}
    /\ Asset \in {{}, {IdOf(SiblingAsset)}}
    /\ registered = {}
    /\ NoneRetained

AssetInputs == {Concrete(l) : l \in Locations} \cup {Abstract}
TokenInputs == {UnknownAssetId, IdOf(Parent)}

NextAssets ==
    \/ \E asset \in AssetInputs : create_parachain_asset(Root, asset)
    \/ create_parachain_asset(Signed(1), Concrete(Parent))
    \/ \E token \in TokenInputs : whitelist_token(Root, token)
    \/ whitelist_token(Signed(1), UnknownAssetId)

SpecAssets == InitAssets /\ [][NextAssets]_vars

\* The hash of the model is one-to-one on the locations and never gives the
\* id of the native currency.
HashIsOneToOne ==
    /\ \A l1, l2 \in Locations : IdOf(l1) = IdOf(l2) => l1 = l2
    /\ \A l \in Locations : IdOf(l) \notin {NativeCurrencyId, UnknownAssetId}
    /\ \A l \in Locations : decode_parachain_asset(encode_parachain_asset(l)) = Some(l)

---------------------------------------------------------------------------
(* C27 *)

---------------------------------------------------------------------------
(* C28 *)

\* The number of asset ids with an entry in the table.
TableSize(table) == Cardinality({id \in AssetIds : table[id] # NoTheaAssets[id]})

\* The step is create_parachain_asset, called by root, for a location that
\* an earlier call has registered.
RegistersAgain ==
    /\ Dispatched("create_parachain_asset")
    /\ lastCall'.origin = Root
    /\ lastCall'.args.asset.kind = "Concrete"
    /\ \E pair \in registered : pair[2] = lastCall'.args.asset.location

---------------------------------------------------------------------------
(* C29 *)

\* C29: convert_asset_id_to_location(id) is Some(d) exactly when an earlier
\* create_parachain_asset has stored (id, d), and None for every id that was
\* never registered (also when the AssetManager has an asset of that id);
\* an entry of the table, once written, is never changed by a later step.
C29_LookupIsRegistered ==
    /\ [](\A id \in AssetIds :
              /\ \A d \in Locations :
                     convert_asset_id_to_location(id) = Some(d) <=> <<id, d>> \in registered
              /\ (\A pair \in registered : pair[1] # id)
                     => convert_asset_id_to_location(id) = None)
    /\ [][\A id \in AssetIds :
              convert_asset_id_to_location(id) # None
                  => TheaAssets'[id] = TheaAssets[id]]_vars

\* A location is registered, the AssetManager has an asset whose id was never
\* registered, and a later create_parachain_asset has been refused.
C29_Witness ==
    /\ registered # {}
    /\ IdOf(SiblingAsset) \in Asset
    /\ \A pair \in registered : pair[1] # IdOf(SiblingAsset)
    /\ lastCall.op = "create_parachain_asset"
    /\ lastCall.args.asset = Concrete(SiblingAsset)
    /\ lastCall.result = "InUse"

---------------------------------------------------------------------------
(* C30 *)

\* C30: whitelist_token, called by the asset origin for a token that is in
\* the whitelist, ends with TokenIsAlreadyWhitelisted and leaves the whitelist
\* as it was, and the whitelist never holds a token twice.
C30_WhitelistedOnce ==
    /\ [](\A i, j \in DOMAIN WhitelistedTokens :
              WhitelistedTokens[i] = WhitelistedTokens[j] => i = j)
    /\ [][(/\ Dispatched("whitelist_token")
           /\ AssetCreateUpdateOrigin(lastCall'.origin)
           /\ lastCall'.args.token \in Range(WhitelistedTokens))
              => /\ lastCall'.result = "TokenIsAlreadyWhitelisted"
                 /\ WhitelistedTokens' = WhitelistedTokens]_vars

\* A token that an earlier call has whitelisted has just been refused.
C30_Witness ==
    /\ lastCall.op = "whitelist_token"
    /\ lastCall.result = "TokenIsAlreadyWhitelisted"
    /\ lastCall.args.token \in Range(WhitelistedTokens)
    /\ calls >= 2

---------------------------------------------------------------------------
(* The council with the retention of its pending members *)

NextRetain ==
    \/ \E sender \in 1 .. 2 : add_member(Signed(sender), 4)
    \/ claim_membership(Signed(4))
    \/ claim_membership(Signed(Outsider))
    \/ \E d \in 1 .. 2 : council_on_initialize(Timestamp + d)

SpecRetain == InitCouncil /\ [][NextRetain]_vars

---------------------------------------------------------------------------
(* C26 *)

\* The entries of the pending list with their admission times.
PendingEntries ==
    [k \in DOMAIN PendingCouncilMembers |-> <<PendingCouncilMembers[k], PendingSince[k]>>]

\* The step is a successful claim_membership of the member.
ClaimedBy(member) ==
    /\ Dispatched("claim_membership")
    /\ lastCall'.result = "Ok"
    /\ lastCall'.args.who = member

---------------------------------------------------------------------------
(* C31 *)

\* The sequence holds no element twice.
NoDuplicates(s) == \A i, j \in DOMAIN s : s[i] = s[j] => i = j

\* C31: in every reachable state ActiveCouncilMembers and
\* PendingCouncilMembers are sets: no account is twice in the active list, no
\* account is twice in the pending list, and no account is in both lists.
C31_MembersAreSets ==
    /\ NoDuplicates(ActiveCouncilMembers)
    /\ NoDuplicates(PendingCouncilMembers)
    /\ Range(ActiveCouncilMembers) \cap Range(PendingCouncilMembers) = {}

---------------------------------------------------------------------------
(* The council on a chain whose blocks advance *)

\* The votes of the members 1, 2, 3 on the admission of 4 and on the
\* expulsion of 3, the claims of the admitted accounts, the vetoes of the
\* members 1 and 2 on the two queued withdrawals, and the block advance with
\* its drain.
NextCouncilChain ==
    \/ \E sender \in 1 .. 3 : add_member(Signed(sender), 4)
    \/ \E sender \in 1 .. 3 : remove_member(Signed(sender), 3)
    \/ claim_membership(Signed(4))
    \/ claim_membership(Signed(Outsider))
    \/ \E sender \in 1 .. 2, index \in 0 .. 1 :
           delete_transaction(Signed(sender), ExecutionBlock(1), index)
    \/ NextBlock

SpecCouncilChain == InitCouncil /\ [][NextCouncilChain]_vars

---------------------------------------------------------------------------
(* C32 *)

\* C32: the votes recorded on a proposal change only in a successful vote
\* (add_member / remove_member) cast on that proposal, which either appends
\* the voter or, reaching the quorum, removes the proposal; every other step
\* (claim_membership, a vote on another proposal and its application, the
\* expulsion of one of the proposal's voters included, delete_transaction and
\* the drain of a block) leaves the proposal and its votes as they were.
C32_ProposalChangedOnlyByItsVote ==
    [][\A p \in ProposalKeys :
           Proposals'[p] # Proposals[p]
               => /\ VoteStep
                  /\ VotedProposal = p
                  /\ lastCall'.result = "Ok"
                  /\ \/ Proposals'[p] = Append(Proposals[p], lastCall'.origin.who)
                     \/ Proposals'[p] = <<>> /\ ReachesQuorum]_vars

\* Member 3 voted on the admission of 4 and was then expelled by the votes of
\* two members, and the block of the queued withdrawals has been drained: the
\* admission proposal still holds the vote of 3.
C32_Witness ==
    /\ lastCall.op = "on_initialize"
    /\ block = ExecutionBlock(1)
    /\ 3 \notin Range(ActiveCouncilMembers)
    /\ Proposals[AddNewMember(4)] = <<3>>
    /\ Proposals[RemoveExistingMember(3)] = <<>>

---------------------------------------------------------------------------
(* The vetoes of the council on full buckets *)

\* The first two and the last two positions of a full bucket.
FullBucketIndexInputs == {0, 1, PendingWithdrawalsLimit - 2, PendingWithdrawalsLimit - 1}

\* The relayers' valid withdraw_asset calls, the vetoes of council member 1
\* and of the non-member 4 on the bucket of the next block (every entry of
\* which is blocked already) and on the bucket of the next execution block,
\* and the block advance with its drain.
NextVeto ==
    \/ \E payload \in Payloads :
           withdraw_asset(Signed(1), payload, WithdrawNonce,
                          Signature(ActiveTheaKey, WithdrawMsg(payload, WithdrawNonce)))
    \/ \E block_no \in {2, ExecutionBlock(1)}, index \in FullBucketIndexInputs :
           delete_transaction(Signed(1), block_no, index)
    \/ delete_transaction(Signed(4), ExecutionBlock(1), 0)
    \/ NextBlock

SpecVeto == InitCapacity /\ [][NextVeto]_vars

---------------------------------------------------------------------------
(* C33 *)

\* C33: a delete_transaction(block_no, index) that returns Ok sets is_blocked
\* of the entry at index of the bucket of block_no and changes nothing else:
\* the bucket keeps its length and its order, the entry its asset and its
\* destination, every other entry, every other bucket, the failed buckets,
\* the nonce, the relay key, the council and the executor log are as before.
\* A council member's veto on an entry that is blocked already returns Ok and
\* leaves the storage as it was.  No step takes is_blocked of an entry that
\* stays in its bucket from true to false.
C33_VetoSetsOneFlag ==
    [][/\ (Dispatched("delete_transaction") /\ lastCall'.result = "Ok") =>
              LET N == lastCall'.args.block_no
                  index == lastCall'.args.index
              IN  /\ index < Len(PendingWithdrawals[N])
                  /\ Len(PendingWithdrawals'[N]) = Len(PendingWithdrawals[N])
                  /\ PendingWithdrawals'[N][index + 1].is_blocked
                  /\ PendingWithdrawals'[N][index + 1].asset =
                         PendingWithdrawals[N][index + 1].asset
                  /\ PendingWithdrawals'[N][index + 1].destination =
                         PendingWithdrawals[N][index + 1].destination
                  /\ \A i \in DOMAIN PendingWithdrawals[N] :
                         i # index + 1 => PendingWithdrawals'[N][i] = PendingWithdrawals[N][i]
                  /\ \A b \in Blocks \ {N} : PendingWithdrawals'[b] = PendingWithdrawals[b]
                  /\ UNCHANGED <<block, ActiveTheaKey, WithdrawNonce, FailedWithdrawals,
                                 IngressMessages, ActiveCouncilMembers,
                                 PendingCouncilMembers, Proposals, executed>>
       /\ (/\ Dispatched("delete_transaction")
           /\ IsMember(lastCall'.origin)
           /\ lastCall'.args.index < Len(PendingWithdrawals[lastCall'.args.block_no])
           /\ PendingWithdrawals[lastCall'.args.block_no][lastCall'.args.index + 1].is_blocked)
              => /\ lastCall'.result = "Ok"
                 /\ UNCHANGED PendingWithdrawals
       /\ \A b \in Blocks :
              \A i \in DOMAIN PendingWithdrawals[b] :
                  (PendingWithdrawals[b][i].is_blocked /\ i \in DOMAIN PendingWithdrawals'[b])
                      => PendingWithdrawals'[b][i].is_blocked]_vars

\* The first call on the chain is a veto on the bucket of block 2, whose
\* entries were all blocked before, and it has returned Ok: the bucket is as
\* it was.
C33_Witness ==
    /\ lastCall.op = "delete_transaction"
    /\ lastCall.result = "Ok"
    /\ lastCall.args.block_no = 2
    /\ calls = 1
    /\ block = 1
    /\ PendingWithdrawals[2] =
           Repeat(PendingWithdrawal("A2", "Foreign", TRUE), PendingWithdrawalsLimit)

---------------------------------------------------------------------------
(* C34 *)

\* The withdrawal (asset and destination) of a bucket entry, whatever its flag.
Withdrawal(entry) == [asset |-> entry.asset, destination |-> entry.destination]

\* C34: in every step that does not drain block b, every entry of
\* PendingWithdrawals[b] stays at its index with its asset and destination
\* (withdraw_asset appends at the tail, delete_transaction neither reorders
\* nor removes); hence a successful delete_transaction(N, index) blocks the
\* withdrawal that was pushed to index of the bucket of N: the one the
\* accepted withdraw_asset call covering that index named at that position.
C34_IndexIsStable ==
    [][/\ \A b \in Blocks :
              ~(Drained /\ b = block')
                  => \A i \in DOMAIN PendingWithdrawals[b] :
                         /\ i \in DOMAIN PendingWithdrawals'[b]
                         /\ Withdrawal(PendingWithdrawals'[b][i]) =
                                Withdrawal(PendingWithdrawals[b][i])
       /\ (Dispatched("delete_transaction") /\ lastCall'.result = "Ok") =>
              LET N == lastCall'.args.block_no
                  i == lastCall'.args.index + 1
              IN  \A a \in DOMAIN accepted :
                      (/\ ExecutionBlock(accepted[a].block) = N
                       /\ accepted[a].pos < i
                       /\ i <= accepted[a].pos + Len(accepted[a].payload))
                          => /\ PendingWithdrawals'[N][i].is_blocked
                             /\ Withdrawal(PendingWithdrawals'[N][i]) =
                                    accepted[a].payload[i - accepted[a].pos]]_vars

\* The council blocked the second entry of the bucket of the next execution
\* block and the relayers then had one more withdrawal accepted for it: the
\* new entry is at the tail and the blocked entry is still the second.
C34_Witness ==
    /\ lastCall.op = "withdraw_asset"
    /\ lastCall.result = "Ok"
    /\ calls = 2
    /\ block = 1
    /\ Len(PendingWithdrawals[ExecutionBlock(1)]) = PendingWithdrawalsLimit
    /\ PendingWithdrawals[ExecutionBlock(1)][2].is_blocked
    /\ \A i \in DOMAIN PendingWithdrawals[ExecutionBlock(1)] :
           i # 2 => ~PendingWithdrawals[ExecutionBlock(1)][i].is_blocked

---------------------------------------------------------------------------
(* C35 *)

\* The sequence read from its last element to its first.
Reverse(s) == [k \in 1 .. Len(s) |-> s[Len(s) - k + 1]]

\* C35: the drain of block n handles the entries of PendingWithdrawals[n]
\* last pushed first: the executor is called on the entries that are not
\* blocked in the order of falling bucket index, and FailedWithdrawals[n] is
\* the list of the entries that are blocked or whose executor call failed, in
\* the reverse of their order in the bucket.  The buckets after the drain are
\* thus determined by the bucket and the executor's answers.
C35_DrainedInStackOrder ==
    [][Drained =>
        \E n \in {block'} :
        \E bucket \in {PendingWithdrawals[n]} :
        \E log \in {NewLog} :
        \E unsuccessful \in {{log[k].index + 1 : k \in {j \in DOMAIN log : ~log[j].ok}}} :
        \E failing \in {SelectSeq([i \in DOMAIN bucket |-> i],
                                  LAMBDA i : bucket[i].is_blocked \/ i \in unsuccessful)} :
            /\ \A k \in DOMAIN log :
                   k + 1 \in DOMAIN log => log[k].index > log[k + 1].index
            /\ FailedWithdrawals'[n] =
                   Reverse([k \in DOMAIN failing |-> bucket[failing[k]]])
            /\ PendingWithdrawals' = [PendingWithdrawals EXCEPT ![n] = <<>>]
            /\ \A b \in Blocks \ {n} : FailedWithdrawals'[b] = FailedWithdrawals[b]]_vars

\* The batch (P2, P1) was accepted into an empty bucket and both executor
\* calls failed at the drain: the failed bucket lists P1 before P2.
C35_Witness ==
    /\ lastCall.op = "on_initialize"
    /\ \E a \in DOMAIN accepted :
           /\ ExecutionBlock(accepted[a].block) = block
           /\ accepted[a].pos = 0
           /\ accepted[a].payload = <<P2, P1>>
    /\ FailedWithdrawals[block] =
           <<PendingWithdrawal(P1.asset, P1.destination, FALSE),
             PendingWithdrawal(P2.asset, P2.destination, FALSE)>>
    /\ Len(executed) = 2
    /\ executed[1].withdrawal.asset = P1.asset
    /\ executed[2].withdrawal.asset = P2.asset

---------------------------------------------------------------------------
(* C36 *)

\* The u32 that follows a, which u32::MAX does not have.
IsSuccessorU32(a, b) == b # a /\ b = SaturatingAddU32(a, U32(1))

\* C36: a withdraw_asset call that returns Ok in block b appends the entries
\* of its payload, in the payload's order and each with is_blocked = false,
\* to the tail of PendingWithdrawals[b + WithdrawalExecutionBlockDiff],
\* increments WithdrawNonce by 1, and leaves every other pending bucket, the
\* failed buckets, the relay key and the council as they were.
C36_AcceptedBatchAppended ==
    [][(Dispatched("withdraw_asset") /\ lastCall'.result = "Ok") =>
          LET t == block + WithdrawalExecutionBlockDiff
              payload == lastCall'.args.payload
          IN  /\ Len(PendingWithdrawals'[t]) = Len(PendingWithdrawals[t]) + Len(payload)
              /\ SubSeq(PendingWithdrawals'[t], 1, Len(PendingWithdrawals[t])) =
                     PendingWithdrawals[t]
              /\ \A j \in DOMAIN payload :
                     PendingWithdrawals'[t][Len(PendingWithdrawals[t]) + j] =
                         [asset |-> payload[j].asset,
                          destination |-> payload[j].destination,
                          is_blocked |-> FALSE]
              /\ IsSuccessorU32(WithdrawNonce, WithdrawNonce')
              /\ \A b \in Blocks \ {t} : PendingWithdrawals'[b] = PendingWithdrawals[b]
              /\ UNCHANGED <<block, FailedWithdrawals, ActiveTheaKey,
                             ActiveCouncilMembers, PendingCouncilMembers, Proposals>>]_vars

---------------------------------------------------------------------------
(* The withdrawal queue on a chain whose blocks keep coming *)

\* The relayers' withdraw_asset calls with a valid and with a foreign
\* signature, the vetoes of council member 1 and the block advance.  A call
\* is dispatched only while its execution block is within the blocks of the
\* model.
NextLive ==
    \/ /\ block + WithdrawalExecutionBlockDiff <= MaxBlock
       /\ \E payload \in Payloads, key \in Keys :
              withdraw_asset(Signed(1), payload, WithdrawNonce,
                             Signature(key, WithdrawMsg(payload, WithdrawNonce)))
    \/ \E block_no \in VetoBlockInputs, index \in VetoIndexInputs :
           delete_transaction(Signed(1), block_no, index)
    \/ NextBlock

\* The chain right after genesis or set up for operation, with empty buckets.
InitLive == Init /\ (Genesis \/ Running)

\* The block production does not stop: on_initialize runs once in every
\* block, up to the last block of the model.
SpecLive == InitLive /\ [][NextLive]_vars /\ WF_vars(NextBlock)

---------------------------------------------------------------------------
(* C37 *)

\* An accepted withdraw_asset call has entries waiting in the bucket of
\* block t.
AcceptedFor(t) ==
    \E a \in DOMAIN accepted :
        accepted[a].block + WithdrawalExecutionBlockDiff = t /\ block < t

\* Block t has been drained and every withdrawal accepted for it was either
\* passed to the executor with success or is in the failed bucket of t.
Settled(t) ==
    /\ block >= t
    /\ PendingWithdrawals[t] = <<>>
    /\ \A a \in DOMAIN accepted :
           accepted[a].block + WithdrawalExecutionBlockDiff = t
               => \A j \in DOMAIN accepted[a].payload :
                      \/ \E x \in DOMAIN executed :
                             /\ executed[x].block = t
                             /\ executed[x].index = accepted[a].pos + j - 1
                             /\ executed[x].ok
                      \/ \E f \in DOMAIN FailedWithdrawals[t] :
                             /\ FailedWithdrawals[t][f].asset = accepted[a].payload[j].asset
                             /\ FailedWithdrawals[t][f].destination =
                                    accepted[a].payload[j].destination

\* C37: on a chain whose blocks keep coming, with on_initialize run once per
\* block and WithdrawalExecutionBlockDiff >= 1, every withdrawal accepted by
\* withdraw_asset eventually leaves its pending bucket, executed or moved to
\* the failed bucket: none stays pending forever.
C37_AcceptedEventuallySettled ==
    \A t \in Blocks : AcceptedFor(t) ~> Settled(t)

\* The batch (P2, P1) accepted in block 1 has left the queue at the drain of
\* its execution block: one withdrawal was executed and the other, which the
\* council had blocked, is in the failed bucket.
C37_Witness ==
    /\ block = ExecutionBlock(1)
    /\ \E a \in DOMAIN accepted :
           accepted[a].block = 1 /\ accepted[a].payload = <<P2, P1>> /\ accepted[a].pos = 0
    /\ Settled(block)
    /\ Len(FailedWithdrawals[block]) = 1
    /\ FailedWithdrawals[block][1].is_blocked
    /\ \E x \in DOMAIN executed : executed[x].block = block /\ executed[x].ok

---------------------------------------------------------------------------
(* C38 *)

\* C38: when a remove_member vote by an active member that has not voted on
\* it brings RemoveExistingMember(member) to the quorum while member is not
\* in ActiveCouncilMembers, the call fails with NotActiveMember and the
\* council is as before: the vote is not recorded, the proposal keeps
\* exactly the votes it had, and both member lists are unchanged.
C38_ExpelAbsentMemberFails ==
    [][(/\ EligibleVote
        /\ lastCall'.op = "remove_member"
        /\ ReachesQuorum
        /\ lastCall'.args.who \notin Range(ActiveCouncilMembers))
       => /\ lastCall'.result = "NotActiveMember"
          /\ Proposals'[VotedProposal] = Proposals[VotedProposal]
          /\ lastCall'.origin.who \notin Range(Proposals'[VotedProposal])
          /\ UNCHANGED <<ActiveCouncilMembers, PendingCouncilMembers, Proposals>>]_vars

\* Member 2 has just cast the second vote of a council of three on the
\* expulsion of account 4, which is not a member: the call has failed and
\* the proposal holds the first vote only.
C38_Witness ==
    /\ lastCall.op = "remove_member"
    /\ lastCall.result = "NotActiveMember"
    /\ lastCall.origin = Signed(2)
    /\ lastCall.args.who = 4
    /\ ActiveCouncilMembers = <<1, 2, 3>>
    /\ Proposals[RemoveExistingMember(4)] = <<1>>

---------------------------------------------------------------------------
(* C39 *)

\* Neither list of the council holds an account.
CouncilEmpty == ActiveCouncilMembers = <<>> /\ PendingCouncilMembers = <<>>

\* C39: once ActiveCouncilMembers and PendingCouncilMembers are both empty
\* they stay empty: every add_member, remove_member, claim_membership and
\* delete_transaction call fails and leaves the proposals and the pending
\* withdrawals as they were.
C39_EmptyCouncilStaysEmpty ==
    [][CouncilEmpty
       => /\ CouncilEmpty'
          /\ (\E op \in {"add_member", "remove_member", "claim_membership",
                         "delete_transaction"} : Dispatched(op))
                 => /\ lastCall'.result \in {"BadOrigin", "SenderNotCouncilMember",
                                             "NotPendingMember"}
                    /\ UNCHANGED <<Proposals, PendingWithdrawals>>]_vars

\* The sole member has expelled itself with nothing pending, and its next
\* vote, on the admission of account 4, has been refused.
C39_Witness ==
    /\ CouncilEmpty
    /\ calls >= 2
    /\ lastCall.op = "add_member"
    /\ lastCall.origin = Signed(1)
    /\ lastCall.args.who = 4
    /\ lastCall.result = "SenderNotCouncilMember"

---------------------------------------------------------------------------
(* C40 *)

\* C40: a set_thea_key or change_thea_key call that fails with
\* IngressMessagesFull, the IngressMessageLimit messages of the current block
\* being queued already, leaves ActiveTheaKey as it was before the call (the
\* key written before the push is rolled back) and queues no message.
C40_KeyKeptWhenIngressFull ==
    [][(/\ Dispatched("set_thea_key") \/ Dispatched("change_thea_key")
        /\ lastCall'.result = "IngressMessagesFull")
       => /\ Len(IngressMessages) = IngressMessageLimit
          /\ ActiveTheaKey' = ActiveTheaKey
          /\ IngressMessages' = IngressMessages]_vars

\* Root has just tried to replace the active key while the ingress messages
\* of the block were full: the call has failed and the key is not the one of
\* the call.
C40_Witness ==
    /\ lastCall.op = "set_thea_key"
    /\ lastCall.origin = Root
    /\ lastCall.result = "IngressMessagesFull"
    /\ ActiveTheaKey # NoKey
    /\ lastCall.args.thea_key # ActiveTheaKey
    /\ Len(IngressMessages) = IngressMessageLimit

====
